---- MODULE Spec2Model ----
(***************************************************************************)
(* TypeMap analysis engine: the incremental re-parse decision engine       *)
(* (src/analysis/incrementalParser.ts), the two-tier cache manager         *)
(* (src/cache/cacheManager.ts) and the incremental update manager with the *)
(* graph it patches (src/analysis/incrementalUpdateManager.ts,             *)
(* src/graph/graphBuilder.ts).                                             *)
(*                                                                         *)
(* The specifications of the module:                                       *)
(*   SpecParser   - one file edited and re-parsed by IncrementalParser     *)
(*   SpecCache    - CacheManager under set/get/invalidate/clear            *)
(*   SpecUpdate   - IncrementalUpdateManager: debounce, batches, the       *)
(*                  graph, its git status and its statistics               *)
(*   SpecUpdateLive - the same manager with dispose() and a fair event     *)
(*                  loop                                                   *)
(*   SpecAnalyze  - AnalyzeCommand.execute over LightweightParser          *)
(*   SpecDeps     - DependencyAnalyzer.analyze over a list of parsed files *)
(*   SpecCycles   - the same analysis over three files importing each other*)
(*   SpecBuild    - GraphBuilder.build over a list of symbols              *)
(*   SpecResolver - FindImplementationsCommand and the file watcher        *)
(*   SpecMetrics  - MetricsCollector.collectNodeMetrics over syntax trees  *)
(*   SpecClassify - LightweightParser.detectReactHookOrComponent           *)
(*   SpecProject  - ProjectAnalyzer.findUnusedExports                      *)
(***************************************************************************)
EXTENDS Integers, Sequences, FiniteSets, TLC

VARIABLES
  content,      \* SpecParser: the text last handed to parseIncremental, a sequence of lines
  fileCache,    \* IncrementalParser.fileCache : path -> FileCache or NoCache
  parseResult,  \* the IncrementalParseResult of the last parseIncremental call
  lastEdit,     \* the edit that led to the last call (its EditInfo and what was written)
  editCount,    \* number of edits made so far
  files,        \* SpecCache: the text of each file on disk, Missing if it cannot be read
  l1Cache,      \* CacheManager.l1Cache : key -> CacheEntry
  l1Order,      \* CacheManager.l1Order, the eviction order, oldest first
  l1SizeBytes,  \* CacheManager.l1SizeBytes
  stats,        \* CacheManager.stats
  workspaceState, \* the L2 store, context.workspaceState : key -> CacheEntry
  getResult,    \* what the last get returned, with the text it read from disk
  lastInsert,   \* the last setL1: the key, the keys it evicted, and the state before it
  recency,      \* the resident keys in the order of their last use, oldest first
  cacheOps,     \* number of CacheManager calls made so far
  disk,         \* SpecUpdate: the text of each workspace file, Missing if it does not exist
  graphSet,     \* IncrementalUpdateManager.currentGraph is set
  nodes,        \* currentGraph.nodes : id -> MindmapNode
  edges,        \* currentGraph.edges
  fileContentCache, \* IncrementalUpdateManager.fileContentCache : path -> line count
  pendingChanges,   \* IncrementalUpdateManager.pendingChanges, in insertion order
  debounceTimer,    \* "null", "armed" (set and not yet fired) or "fired"
  timerLeft,    \* time until the armed timer is due
  batches,      \* the executions of processPendingChanges suspended at an await
  sinceChange,  \* time since the last registerChange, up to debounceMs
  lastStart,    \* how the last batch was started: by the timer or by flush, and when,
                \* and the ids of the nodes the graph had then
  lastCall,     \* the accepted registerChange calls since the last batch started: their
                \* number and, per path, the type of the latest one
  eventCount,   \* number of accepted registerChange calls and of disk writes so far
  watched,      \* the disk writes no registerChange has reported yet, and whether every
                \* accepted registerChange named what had happened to its file
  phase,        \* SpecAnalyze: AnalyzeCommand.execute is "idle", "parsing" or "done"
  discovered,   \* discoveryResult.files
  completed,    \* parseFiles: the files the loop is through with
  allSymbols,   \* parseFiles: the symbols collected so far
  cancelRequested,  \* token.isCancellationRequested
  analysisResult,   \* what execute returned: null, or the graph and the error list
  parserStats,  \* LightweightParser.stats of the parser of this run
  outcomes,     \* per file the loop is through with: what parseFile read and returned
  lastParsed,   \* path -> text and symbols of the latest parseFile that returned
  runs,         \* number of execute calls so far
  parsedFiles,  \* SpecDeps: the ParsedFile list handed to DependencyAnalyzer.analyze
  dependencyResult,  \* what analyze returned
  fileSetVersion,   \* SpecResolver: number of changes of the workspace files so far
  hasAnalysis,      \* analysisState.hasAnalysis of the extension
  typeAnalyzer,     \* FindImplementationsCommand.typeAnalyzer, NoAnalyzer for null
  isInitialized,    \* FindImplementationsCommand.isInitialized
  disposed,         \* the TypeAnalyzer instances that dispose() was called on
  inFlight,         \* the findImplementations calls suspended in discovery.discover()
  lastAnswer,       \* the last query that was answered, and the analyzer that answered it
  queryCount,       \* number of findImplementations calls so far
  gitStatus,        \* SpecUpdate: metadata.gitStatus of the nodes that have one : id -> status
  statistics,       \* currentGraph.statistics, with the identity of the object
  ast,              \* SpecMetrics: the syntax tree handed to collectNodeMetrics
  nodeMetrics,      \* the NodeMetrics it returned
  traversal,        \* the TraversalState at the end of the traversal
  symbolName,       \* SpecClassify: the name of a function-like symbol, a sequence of characters
  isTsx,            \* the file of the symbol is a TSX file
  symbolKind,       \* what detectReactHookOrComponent returned, "none" before the call
  projectInput,     \* SpecProject: the ParsedFile list handed to ProjectAnalyzer.analyze
  unusedExports     \* the unusedExports of its result, NoUnused before the call

parserVars == <<content, fileCache, parseResult, lastEdit, editCount>>

cacheVars == <<files, l1Cache, l1Order, l1SizeBytes, stats, workspaceState,
               getResult, lastInsert, recency, cacheOps>>

updateVars == <<disk, graphSet, nodes, edges, fileContentCache, pendingChanges,
                debounceTimer, timerLeft, batches, sinceChange, lastStart, lastCall,
                eventCount, watched>>

analyzeVars == <<phase, discovered, completed, allSymbols, cancelRequested, analysisResult,
                 parserStats, outcomes, lastParsed, runs>>

depsVars == <<parsedFiles, dependencyResult>>

resolverVars == <<fileSetVersion, hasAnalysis, typeAnalyzer, isInitialized, disposed, inFlight,
                  lastAnswer, queryCount>>

\* the variables of the specifications further down
overlayVars == <<gitStatus, statistics>>

metricsVars == <<ast, nodeMetrics, traversal>>

\* the variables of the specifications of single functions
classifyVars == <<symbolName, isTsx, symbolKind>>

projectVars == <<projectInput, unusedExports>>

pureVars == <<metricsVars, classifyVars, projectVars>>

laterVars == <<resolverVars, overlayVars, pureVars>>

vars == <<parserVars, cacheVars, updateVars, analyzeVars, depsVars, laterVars>>

(***************************************************************************)
(* Bounds                                                                  *)
(***************************************************************************)
MaxLines == 3      \* longest file text, in lines
MaxIns == 1        \* most lines one edit writes
MaxEdits == 1      \* most edits of the file in one behaviour
MaxCacheOps == 4   \* most CacheManager calls in one behaviour
MaxRuns == 2       \* most execute calls in one behaviour
MaxEvents == 2     \* most accepted registerChange calls and disk writes in one behaviour

(***************************************************************************)
(* Source text.  A line is the sequence of its words; a file is a sequence *)
(* of lines.  Every line starts in column 0 and at most one top-level      *)
(* statement starts on a line.                                             *)
(***************************************************************************)
LComment == <<"//">>
LConstX == <<"export", "const", "X", "=", "1">>
LFnRet1 == <<"export", "function", "f", "{", "return", "1", "}">>
LFnRet2 == <<"export", "function", "f", "{", "return", "2", "}">>
LOpenG == <<"export", "function", "g", "{">>
LClose == <<"}">>
LAsyncH == <<"export", "async", "function", "h", "{", "}">>

Alphabet == <<LComment, LConstX, LFnRet1, LFnRet2, LOpenG, LClose, LAsyncH>>

Lines == {Alphabet[i] : i \in 1..Len(Alphabet)}

RECURSIVE SeqsUpTo(_, _)
SeqsUpTo(S, n) ==
  IF n = 0 THEN {<<>>}
  ELSE LET shorter == SeqsUpTo(S, n - 1)
       IN shorter \cup {Append(q, x) : q \in {p \in shorter : Len(p) = n - 1}, x \in S}

Punctuation == {"{", "}", "(", ")", "=", ":", ";", "//"}

IsWord(w) == w \notin Punctuation

EmptyMap == [x \in {} |-> 0]

Missing == <<>>

NoCache == [cached |-> FALSE]

NoEdit == [op |-> "none", startLine |-> 0, endLine |-> 0, linesDelta |-> 0,
           replaced |-> <<>>, written |-> <<>>]

FilePath == "a.ts"

(***************************************************************************)
(* quickHash: md5 of the text cut to 16 hex digits (64 bits).  The digest  *)
(* is modelled by a positional code of the lines, which is collision-free, *)
(* as the 64-bit md5 prefix is in practice; the codes of the texts within  *)
(* the bounds stay far below 64 bits, so the cut never applies.            *)
(***************************************************************************)
LineCode(l) == CHOOSE i \in 1..Len(Alphabet) : Alphabet[i] = l

RECURSIVE Digest(_, _)
Digest(lines, i) ==
  IF i > Len(lines) THEN 1
  ELSE LineCode(lines[i]) + (Len(Alphabet) + 1) * Digest(lines, i + 1)

quickHash(lines) == Digest(lines, 1)

(***************************************************************************)
(* fullParse / extractSymbol: the TypeScript parser over the text.  Only   *)
(* the statements of the source file (brace depth 0) give symbols; a       *)
(* statement runs to the line where its braces close, or to the last code  *)
(* line of the text when they never close (the parser's error recovery).   *)
(***************************************************************************)
Modifiers == {"export", "default", "async", "declare", "abstract"}

RECURSIVE StripModifiers(_)
StripModifiers(line) ==
  IF Len(line) > 0 /\ line[1] \in Modifiers THEN StripModifiers(Tail(line)) ELSE line

NamedKinds == {"class", "interface", "function", "type", "enum"}

NoSymbol == [name |-> "", kind |-> ""]

\* name and kind of the statement that starts on this line, NoSymbol if it declares nothing
extractSymbol(line) ==
  LET st == StripModifiers(line)
  IN IF Len(st) >= 2 /\ st[1] \in NamedKinds /\ IsWord(st[2])
       THEN [name |-> st[2], kind |-> st[1]]
     ELSE IF Len(st) >= 2 /\ st[1] \in {"const", "let", "var"} /\ IsWord(st[2])
       THEN [name |-> st[2], kind |-> "variable"]
     ELSE NoSymbol

RECURSIVE DepthAfter(_, _)
DepthAfter(line, depth) ==
  IF Len(line) = 0 THEN depth
  ELSE IF line[1] = "{" THEN DepthAfter(Tail(line), depth + 1)
  ELSE IF line[1] = "}" THEN DepthAfter(Tail(line), IF depth > 0 THEN depth - 1 ELSE 0)
  ELSE DepthAfter(Tail(line), depth)

IsTrivia(line) == Len(line) = 0 \/ line[1] = "//"

LastCodeLine(lines) ==
  LET code == {i \in 1..Len(lines) : ~IsTrivia(lines[i])}
  IN IF code = {} THEN 0 ELSE CHOOSE i \in code : \A j \in code : j <= i

CachedSymbolOf(lines, sym, startLine, endLine) ==
  [name |-> sym.name, kind |-> sym.kind,
   startLine |-> startLine, endLine |-> endLine,
   declarationLine |-> startLine,
   contentHash |-> quickHash(SubSeq(lines, startLine, endLine))]

\* i: next line; depth: brace depth before it; open: first line of the statement
\* still open (0 if none); acc: symbols so far
RECURSIVE ParseLines(_, _, _, _, _)
ParseLines(lines, i, depth, open, acc) ==
  IF i > Len(lines)
    THEN IF open > 0 /\ extractSymbol(lines[open]) # NoSymbol
           THEN Append(acc, CachedSymbolOf(lines, extractSymbol(lines[open]), open, LastCodeLine(lines)))
           ELSE acc
  ELSE LET start == IF depth = 0 /\ ~IsTrivia(lines[i]) THEN i ELSE open
           after == DepthAfter(lines[i], depth)
       IN IF after = 0 /\ start > 0
            THEN IF extractSymbol(lines[start]) # NoSymbol
                   THEN ParseLines(lines, i + 1, 0, 0,
                          Append(acc, CachedSymbolOf(lines, extractSymbol(lines[start]), start, i)))
                   ELSE ParseLines(lines, i + 1, 0, 0, acc)
            ELSE ParseLines(lines, i + 1, after, start, acc)

fullParse(lines) == ParseLines(lines, 1, 0, 0, <<>>)

(***************************************************************************)
(* quickDeclarationCount: three anchored regular expressions, one hit per  *)
(* line at most (the line numbers are collected in a set).                 *)
(***************************************************************************)
ExportKeywords == {"class", "interface", "function", "type", "enum", "const", "let", "var"}

\* /^export\s+(default\s+)?(class|interface|function|type|enum|const|let|var)\s+/gm
MatchesExportPattern(line) ==
  /\ Len(line) >= 3
  /\ line[1] = "export"
  /\ \/ line[2] \in ExportKeywords
     \/ Len(line) >= 4 /\ line[2] = "default" /\ line[3] \in ExportKeywords

\* /^(class|interface|function|type|enum)\s+\w+/gm
MatchesPlainPattern(line) ==
  Len(line) >= 2 /\ line[1] \in NamedKinds /\ IsWord(line[2])

\* /^(const|let|var)\s+\w+\s*[=:]/gm
MatchesVariablePattern(line) ==
  Len(line) >= 3 /\ line[1] \in {"const", "let", "var"} /\ IsWord(line[2]) /\ line[3] \in {"=", ":"}

quickDeclarationCount(lines) ==
  Cardinality({i \in 1..Len(lines) :
     MatchesExportPattern(lines[i]) \/ MatchesPlainPattern(lines[i]) \/ MatchesVariablePattern(lines[i])})

(***************************************************************************)
(* IncrementalParser                                                       *)
(***************************************************************************)
createEditInfo(oldLineCount, newLineCount, changeStartLine, changeEndLine) ==
  [startLine |-> changeStartLine, endLine |-> changeEndLine,
   linesDelta |-> newLineCount - oldLineCount]

adjustLineNumbers(symbols, editInfo) ==
  [k \in 1..Len(symbols) |->
     LET sym == symbols[k]
     IN IF sym.startLine > editInfo.endLine
          THEN [sym EXCEPT !.startLine = @ + editInfo.linesDelta,
                           !.endLine = @ + editInfo.linesDelta,
                           !.declarationLine = @ + editInfo.linesDelta]
        ELSE IF sym.endLine >= editInfo.startLine
          THEN [sym EXCEPT !.endLine = @ + editInfo.linesDelta]
        ELSE sym]

cacheFile(lines, symbols) ==
  [cached |-> TRUE, contentHash |-> quickHash(lines), lineCount |-> Len(lines), symbols |-> symbols]

SymbolNames(symbols) == [k \in 1..Len(symbols) |-> symbols[k].name]

NameKinds(symbols) == [k \in 1..Len(symbols) |-> <<symbols[k].name, symbols[k].kind>>]

\* tryPartialParse that shifts the cached symbols without comparing the declaration count
tryPartialParse_CountIgnored(newContent, cached, editInfo) ==
  LET editStart == editInfo.startLine
      editEnd == editInfo.endLine
      affectedDeclarations == SelectSeq(cached.symbols,
         LAMBDA sym : sym.declarationLine >= editStart /\ sym.declarationLine <= editEnd)
      containing == SelectSeq(cached.symbols,
         LAMBDA sym : editStart > sym.declarationLine /\ editEnd <= sym.endLine)
      updatedSymbols == adjustLineNumbers(cached.symbols, editInfo)
  IN IF Len(affectedDeclarations) > 0
       THEN [hit |-> FALSE]
     ELSE IF Len(containing) > 0
       THEN [hit |-> TRUE, symbols |-> updatedSymbols, parseStrategy |-> "skip",
             affectedSymbols |-> <<>>, cache |-> cacheFile(newContent, updatedSymbols)]
     ELSE [hit |-> TRUE, symbols |-> updatedSymbols, parseStrategy |-> "partial",
           affectedSymbols |-> <<>>, cache |-> cacheFile(newContent, updatedSymbols)]

\* tryPartialParse with the declaration test off by one at the start of the edit range
tryPartialParse_StrictStart(newContent, cached, editInfo) ==
  LET editStart == editInfo.startLine
      editEnd == editInfo.endLine
      affectedDeclarations == SelectSeq(cached.symbols,
         LAMBDA sym : sym.declarationLine > editStart /\ sym.declarationLine <= editEnd)
      containing == SelectSeq(cached.symbols,
         LAMBDA sym : editStart > sym.declarationLine /\ editEnd <= sym.endLine)
      updatedSymbols == adjustLineNumbers(cached.symbols, editInfo)
  IN IF Len(affectedDeclarations) > 0
       THEN [hit |-> FALSE]
     ELSE IF Len(containing) > 0
       THEN [hit |-> TRUE, symbols |-> updatedSymbols, parseStrategy |-> "skip",
             affectedSymbols |-> <<>>, cache |-> cacheFile(newContent, updatedSymbols)]
     ELSE IF quickDeclarationCount(newContent) = Len(cached.symbols)
       THEN [hit |-> TRUE, symbols |-> updatedSymbols, parseStrategy |-> "partial",
             affectedSymbols |-> <<>>, cache |-> cacheFile(newContent, updatedSymbols)]
     ELSE [hit |-> FALSE]

\* the result of tryPartialParse; hit = FALSE stands for the null that falls back to a full parse
tryPartialParse(newContent, cached, editInfo) ==
  LET editStart == editInfo.startLine
      editEnd == editInfo.endLine
      affectedDeclarations == SelectSeq(cached.symbols,
         LAMBDA sym : sym.declarationLine >= editStart /\ sym.declarationLine <= editEnd)
      containing == SelectSeq(cached.symbols,
         LAMBDA sym : editStart > sym.declarationLine /\ editEnd <= sym.endLine)
      updatedSymbols == adjustLineNumbers(cached.symbols, editInfo)
  IN IF Len(affectedDeclarations) > 0
       THEN [hit |-> FALSE]
     ELSE IF Len(containing) > 0
       THEN [hit |-> TRUE, symbols |-> updatedSymbols, parseStrategy |-> "skip",
             affectedSymbols |-> <<>>, cache |-> cacheFile(newContent, updatedSymbols)]
     ELSE IF quickDeclarationCount(newContent) = Len(cached.symbols)
       THEN [hit |-> TRUE, symbols |-> updatedSymbols, parseStrategy |-> "partial",
             affectedSymbols |-> <<>>, cache |-> cacheFile(newContent, updatedSymbols)]
     ELSE [hit |-> FALSE]

FullResult(newContent) ==
  LET symbols == fullParse(newContent)
  IN [symbols |-> symbols, parseStrategy |-> "full", affectedSymbols |-> SymbolNames(symbols),
      cache |-> cacheFile(newContent, symbols)]

\* parseIncremental without the comparison of the content hashes
parseIncremental_NoHashTest(cached, newContent, hasEdit, editInfo) ==
  IF ~cached.cached
    THEN FullResult(newContent)
  ELSE IF hasEdit /\ tryPartialParse(newContent, cached, editInfo).hit
    THEN LET partialResult == tryPartialParse(newContent, cached, editInfo)
         IN [symbols |-> partialResult.symbols, parseStrategy |-> partialResult.parseStrategy,
             affectedSymbols |-> partialResult.affectedSymbols, cache |-> partialResult.cache]
  ELSE FullResult(newContent)

\* parseIncremental whose fallback to a full parse leaves the cache entry as it was
parseIncremental_FallbackKeepsCache(cached, newContent, hasEdit, editInfo) ==
  IF ~cached.cached
    THEN FullResult(newContent)
  ELSE IF cached.contentHash = quickHash(newContent)
    THEN [symbols |-> cached.symbols, parseStrategy |-> "skip", affectedSymbols |-> <<>>,
          cache |-> cached]
  ELSE IF hasEdit /\ tryPartialParse(newContent, cached, editInfo).hit
    THEN LET partialResult == tryPartialParse(newContent, cached, editInfo)
         IN [symbols |-> partialResult.symbols, parseStrategy |-> partialResult.parseStrategy,
             affectedSymbols |-> partialResult.affectedSymbols, cache |-> partialResult.cache]
  ELSE [FullResult(newContent) EXCEPT !.cache = cached]

\* parseIncremental(filePath, newContent, editInfo?) for a file whose cache entry is `cached`;
\* hasEdit = FALSE is the call without an edit descriptor.  The field cache is the entry the
\* call leaves in fileCache.
parseIncremental(cached, newContent, hasEdit, editInfo) ==
  IF ~cached.cached
    THEN FullResult(newContent)
  ELSE IF cached.contentHash = quickHash(newContent)
    THEN [symbols |-> cached.symbols, parseStrategy |-> "skip", affectedSymbols |-> <<>>,
          cache |-> cached]
  ELSE IF hasEdit /\ tryPartialParse(newContent, cached, editInfo).hit
    THEN LET partialResult == tryPartialParse(newContent, cached, editInfo)
         IN [symbols |-> partialResult.symbols, parseStrategy |-> partialResult.parseStrategy,
             affectedSymbols |-> partialResult.affectedSymbols, cache |-> partialResult.cache]
  ELSE FullResult(newContent)

ResultOf(r) ==
  [symbols |-> r.symbols, parseStrategy |-> r.parseStrategy, affectedSymbols |-> r.affectedSymbols]

NoResult == [symbols |-> <<>>, parseStrategy |-> "none", affectedSymbols |-> <<>>]

(***************************************************************************)
(* CacheManager (src/cache/cacheManager.ts).  The payload cached for a     *)
(* file is the symbol list parsed from its text.                           *)
(***************************************************************************)
CachePaths == {"a.ts", "b.ts", "c.ts"}

CacheTexts == {<<LComment>>, <<LConstX, LFnRet1>>}

maxBytes == 8      \* maxSizeMB * 1024 * 1024, in the unit of estimateSize

\* sha256 of the text cut to 16 hex digits; the same collision-free digest as quickHash
computeHash(text) == Digest(text, 1)

getCacheKey(filePath) == <<"typemap.cache", filePath>>

getFileHash(filePath) == IF files[filePath] = Missing THEN 0 ELSE computeHash(files[filePath])

CacheEntryOf(key, data, text) == [key |-> key, hash |-> computeHash(text), data |-> data]

\* JSON.stringify(entry).length * 2: a fixed part for key, hash, timestamp and dependencies,
\* and a part that grows with the payload
estimateSize(entry) == 2 * (1 + Len(entry.data))

MapSet(m, k, v) == [x \in DOMAIN m \cup {k} |-> IF x = k THEN v ELSE m[x]]

MapDelete(m, k) == [x \in DOMAIN m \ {k} |-> m[x]]

Without(seq, k) == SelectSeq(seq, LAMBDA x : x # k)

IndexOf(seq, k) ==
  IF \E i \in 1..Len(seq) : seq[i] = k
    THEN CHOOSE i \in 1..Len(seq) : seq[i] = k /\ \A j \in 1..(i - 1) : seq[j] # k
    ELSE 0

InitialStats == [hits |-> 0, misses |-> 0, size |-> 0, maxSize |-> maxBytes, evictions |-> 0]

\* the fields of the CacheManager object, and the keys evicted by the call in progress
Manager ==
  [l1Cache |-> l1Cache, l1Order |-> l1Order, l1SizeBytes |-> l1SizeBytes, stats |-> stats,
   evicted |-> <<>>]

\* the while loop of setL1
RECURSIVE evictLoop(_, _)
evictLoop(m, entrySize) ==
  IF m.l1SizeBytes + entrySize > maxBytes /\ Len(m.l1Order) > 0
    THEN LET oldestKey == Head(m.l1Order)
             shifted == [m EXCEPT !.l1Order = Tail(@)]
         IN IF oldestKey \in DOMAIN m.l1Cache
              THEN evictLoop([shifted EXCEPT
                                !.l1SizeBytes = @ - estimateSize(m.l1Cache[oldestKey]),
                                !.l1Cache = MapDelete(@, oldestKey),
                                !.stats.evictions = @ + 1,
                                !.evicted = Append(@, oldestKey)], entrySize)
              ELSE evictLoop(shifted, entrySize)
    ELSE m

setL1(m, key, entry) ==
  LET room == evictLoop(m, estimateSize(entry))
      newSize == room.l1SizeBytes + estimateSize(entry)
  IN [room EXCEPT !.l1Cache = MapSet(@, key, entry),
                  !.l1Order = Append(@, key),
                  !.l1SizeBytes = newSize,
                  !.stats.size = newSize]

touchL1(m, key) ==
  IF IndexOf(m.l1Order, key) > 0
    THEN LET index == IndexOf(m.l1Order, key)
         IN [m EXCEPT !.l1Order =
               Append(SubSeq(@, 1, index - 1) \o SubSeq(@, index + 1, Len(@)), key)]
    ELSE m

getTier_L2Unchecked(m, l2, key, hash) ==
  IF key \in DOMAIN m.l1Cache /\ m.l1Cache[key].hash = hash THEN "L1"
  ELSE IF key \in DOMAIN l2 THEN "L2"
  ELSE "miss"

\* which tier get serves from
getTier(m, l2, key, hash) ==
  IF key \in DOMAIN m.l1Cache /\ m.l1Cache[key].hash = hash THEN "L1"
  ELSE IF key \in DOMAIN l2 /\ l2[key].hash = hash THEN "L2"
  ELSE "miss"

getStats == [stats EXCEPT !.size = l1SizeBytes]

NoGet == [filePath |-> "", hit |-> FALSE, tier |-> "none", read |-> Missing, hash |-> 0, data |-> <<>>]

NoInsert == [key |-> <<>>, evicted |-> <<>>, recencyBefore |-> <<>>, evictionsBefore |-> 0,
             evictionsAfter |-> 0, residentAfter |-> 0]

ResidentBytes(cache) ==
  LET keys == DOMAIN cache
      RECURSIVE Sum(_)
      Sum(K) == IF K = {} THEN 0
                ELSE LET k == CHOOSE x \in K : TRUE IN estimateSize(cache[k]) + Sum(K \ {k})
  IN Sum(keys)

InsertRecord(key, after) ==
  [key |-> key, evicted |-> after.evicted, recencyBefore |-> recency,
   evictionsBefore |-> stats.evictions, evictionsAfter |-> after.stats.evictions,
   residentAfter |-> ResidentBytes(after.l1Cache)]

RECURSIVE WithoutAll(_, _)
WithoutAll(seq, ks) == IF Len(ks) = 0 THEN seq ELSE WithoutAll(Without(seq, Head(ks)), Tail(ks))

Install(m) ==
  /\ l1Cache' = m.l1Cache
  /\ l1Order' = m.l1Order
  /\ l1SizeBytes' = m.l1SizeBytes
  /\ stats' = m.stats

NoStart == [by |-> "none", elapsed |-> 0, calls |-> 0, nodesBefore |-> {}]

NoCalls == [type |-> EmptyMap, calls |-> 0]

InSync == [owed |-> EmptyMap, faithful |-> TRUE]

UpdateIdle ==
  /\ disk = EmptyMap
  /\ graphSet = FALSE
  /\ nodes = EmptyMap
  /\ edges = <<>>
  /\ fileContentCache = EmptyMap
  /\ pendingChanges = <<>>
  /\ debounceTimer = "null"
  /\ timerLeft = 0
  /\ batches = <<>>
  /\ sinceChange = 0
  /\ lastStart = NoStart
  /\ lastCall = NoCalls
  /\ eventCount = 0
  /\ watched = InSync

NoAnalysis == [returned |-> "none", nodes |-> EmptyMap, edges |-> <<>>, errors |-> <<>>]

NoDependencyResult == [analyzed |-> FALSE]

DepsIdle ==
  /\ parsedFiles = <<>>
  /\ dependencyResult = NoDependencyResult

NoAnalyzer == [id |-> 0]

NoAnswer == [answered |-> FALSE]

ResolverIdle ==
  /\ fileSetVersion = 0
  /\ hasAnalysis = FALSE
  /\ typeAnalyzer = NoAnalyzer
  /\ isInitialized = FALSE
  /\ disposed = {}
  /\ inFlight = <<>>
  /\ lastAnswer = NoAnswer
  /\ queryCount = 0

NodeTypes == {"root", "folder", "file", "namespace", "class", "interface", "function", "type",
              "enum", "variable", "component", "hook"}

createEmptyByType == [t \in NodeTypes |-> 0]

\* no graph yet: no statistics object
NoStatistics == [object |-> 0, totalNodes |-> 0, totalEdges |-> 0, byType |-> createEmptyByType]

OverlayIdle ==
  /\ gitStatus = EmptyMap
  /\ statistics = NoStatistics

NoMetrics == [collected |-> FALSE]

MetricsIdle ==
  /\ ast = <<>>
  /\ nodeMetrics = NoMetrics
  /\ traversal = NoMetrics

ClassifyIdle ==
  /\ symbolName = <<>>
  /\ isTsx = FALSE
  /\ symbolKind = "none"

NoUnused == [analyzed |-> FALSE]

ProjectIdle ==
  /\ projectInput = <<>>
  /\ unusedExports = NoUnused

PureIdle == MetricsIdle /\ ClassifyIdle /\ ProjectIdle

LaterIdle == ResolverIdle /\ OverlayIdle /\ PureIdle

AnalyzeIdle ==
  /\ phase = "idle"
  /\ discovered = <<>>
  /\ completed = 0
  /\ allSymbols = <<>>
  /\ cancelRequested = FALSE
  /\ analysisResult = NoAnalysis
  /\ parserStats = [hits |-> 0, misses |-> 0]
  /\ outcomes = <<>>
  /\ lastParsed = EmptyMap
  /\ runs = 0

CacheIdle ==
  /\ files = [p \in CachePaths |-> Missing]
  /\ l1Cache = EmptyMap
  /\ l1Order = <<>>
  /\ l1SizeBytes = 0
  /\ stats = InitialStats
  /\ workspaceState = EmptyMap
  /\ getResult = NoGet
  /\ lastInsert = NoInsert
  /\ recency = <<>>
  /\ cacheOps = 0

ParserIdle ==
  /\ content = <<LComment>>
  /\ fileCache = [p \in {FilePath} |-> NoCache]
  /\ parseResult = NoResult
  /\ lastEdit = NoEdit
  /\ editCount = 0

InitCache ==
  /\ files \in [CachePaths -> CacheTexts \cup {Missing}]
  /\ l1Cache = EmptyMap
  /\ l1Order = <<>>
  /\ l1SizeBytes = 0
  /\ stats = InitialStats
  /\ workspaceState = EmptyMap
  /\ getResult = NoGet
  /\ lastInsert = NoInsert
  /\ recency = <<>>
  /\ cacheOps = 0
  /\ ParserIdle
  /\ UpdateIdle
  /\ AnalyzeIdle
  /\ DepsIdle
  /\ LaterIdle

\* the file is written, or removed, on disk
FileChange ==
  /\ \E p \in CachePaths, text \in CacheTexts \cup {Missing} :
       /\ files[p] # text
       /\ files' = [files EXCEPT ![p] = text]
  /\ UNCHANGED <<l1Cache, l1Order, l1SizeBytes, stats, workspaceState,
                 getResult, lastInsert, recency, cacheOps>>
  /\ UNCHANGED <<parserVars, updateVars, analyzeVars, depsVars, laterVars>>

\* get(filePath): the file is read and looked up in one step
Get ==
  /\ cacheOps < MaxCacheOps
  /\ cacheOps' = cacheOps + 1
  /\ \E p \in CachePaths :
       LET hash == getFileHash(p)
           key == getCacheKey(p)
           tier == IF files[p] = Missing THEN "unreadable"
                   ELSE getTier(Manager, workspaceState, key, hash)
       IN CASE tier = "unreadable" ->
                 /\ getResult' = [NoGet EXCEPT !.filePath = p, !.tier = tier]
                 /\ UNCHANGED <<l1Cache, l1Order, l1SizeBytes, stats, lastInsert, recency>>
            [] tier = "L1" ->
                 /\ Install([touchL1(Manager, key) EXCEPT !.stats.hits = @ + 1])
                 /\ recency' = Append(Without(recency, key), key)
                 /\ getResult' = [filePath |-> p, hit |-> TRUE, tier |-> tier, read |-> files[p],
                                  hash |-> l1Cache[key].hash, data |-> l1Cache[key].data]
                 /\ UNCHANGED lastInsert
            [] tier = "L2" ->
                 LET after == setL1(Manager, key, workspaceState[key])
                 IN /\ Install([after EXCEPT !.stats.hits = @ + 1])
                    /\ recency' = Append(Without(WithoutAll(recency, after.evicted), key), key)
                    /\ lastInsert' = InsertRecord(key, after)
                    /\ getResult' = [filePath |-> p, hit |-> TRUE, tier |-> tier,
                                     read |-> files[p], hash |-> workspaceState[key].hash,
                                     data |-> workspaceState[key].data]
            [] OTHER ->
                 /\ stats' = [stats EXCEPT !.misses = @ + 1]
                 /\ getResult' = [NoGet EXCEPT !.filePath = p, !.tier = tier, !.read = files[p]]
                 /\ UNCHANGED <<l1Cache, l1Order, l1SizeBytes, lastInsert, recency>>
  /\ UNCHANGED <<files, workspaceState>>
  /\ UNCHANGED <<parserVars, updateVars, analyzeVars, depsVars, laterVars>>

\* the symbol list a parse of the text gives, as LightweightParser caches it
PayloadOf(text) == NameKinds(fullParse(text))

\* set(filePath, data, content) as LightweightParser.parseFile calls it: with the text it
\* read and the symbols it parsed from that text
Set ==
  /\ cacheOps < MaxCacheOps
  /\ cacheOps' = cacheOps + 1
  /\ \E p \in CachePaths :
       /\ files[p] # Missing
       /\ LET key == getCacheKey(p)
              entry == CacheEntryOf(key, PayloadOf(files[p]), files[p])
              after == setL1(Manager, key, entry)
          IN /\ Install(after)
             /\ workspaceState' = MapSet(workspaceState, key, entry)
             /\ recency' = Append(Without(WithoutAll(recency, after.evicted), key), key)
             /\ lastInsert' = InsertRecord(key, after)
  /\ UNCHANGED <<files, getResult>>
  /\ UNCHANGED <<parserVars, updateVars, analyzeVars, depsVars, laterVars>>

RECURSIVE invalidateAll(_, _)
invalidateAll(m, keys) ==
  IF keys = {} THEN m
  ELSE LET key == CHOOSE k \in keys : TRUE
           next == IF key \in DOMAIN m.l1Cache
                     THEN [m EXCEPT !.l1Cache = MapDelete(@, key), !.l1Order = Without(@, key)]
                     ELSE m
       IN invalidateAll(next, keys \ {key})

\* an invalidate that removes the keys from the L1 cache only
invalidate_L1Only(filePaths) ==
  /\ cacheOps < MaxCacheOps
  /\ cacheOps' = cacheOps + 1
  /\ LET keys == {getCacheKey(p) : p \in filePaths}
     IN /\ Install(invalidateAll(Manager, keys))
        /\ recency' = SelectSeq(recency, LAMBDA k : k \notin keys)
  /\ UNCHANGED <<files, workspaceState, getResult, lastInsert>>
  /\ UNCHANGED <<parserVars, updateVars, analyzeVars, depsVars, laterVars>>

\* invalidate(filePaths)
invalidate(filePaths) ==
  /\ cacheOps < MaxCacheOps
  /\ cacheOps' = cacheOps + 1
  /\ LET keys == {getCacheKey(p) : p \in filePaths}
     IN /\ Install(invalidateAll(Manager, keys))
        /\ workspaceState' = [k \in DOMAIN workspaceState \ keys |-> workspaceState[k]]
        /\ recency' = SelectSeq(recency, LAMBDA k : k \notin keys)
  /\ UNCHANGED <<files, getResult, lastInsert>>
  /\ UNCHANGED <<parserVars, updateVars, analyzeVars, depsVars, laterVars>>

Invalidate == \E filePaths \in SUBSET CachePaths : filePaths # {} /\ invalidate(filePaths)

\* clear(): L1 and the counters are reset; the L2 store is left as it is
Clear ==
  /\ cacheOps < MaxCacheOps
  /\ cacheOps' = cacheOps + 1
  /\ l1Cache' = EmptyMap
  /\ l1Order' = <<>>
  /\ l1SizeBytes' = 0
  /\ stats' = InitialStats
  /\ recency' = <<>>
  /\ UNCHANGED <<files, workspaceState, getResult, lastInsert>>
  /\ UNCHANGED <<parserVars, updateVars, analyzeVars, depsVars, laterVars>>

NextCache == FileChange \/ Get \/ Set \/ Invalidate \/ Clear

SpecCache == InitCache /\ [][NextCache]_vars

(***************************************************************************)
(* SpecParser: one file, edited and re-parsed.  An edit and the call that  *)
(* reports it are one step, so the edit descriptor always describes the    *)
(* difference between the cached text and the new text, in the convention  *)
(* of the benchmark's edit scenarios: a replacement of lines s..e is       *)
(* reported as [s, e]; an insertion after line l is reported as [l, l].    *)
(***************************************************************************)
Texts == {t \in SeqsUpTo(Lines, MaxLines) : Len(t) >= 1}

InitParser ==
  /\ content \in Texts
  /\ fileCache = [p \in {FilePath} |-> NoCache]
  /\ parseResult = NoResult
  /\ lastEdit = NoEdit
  /\ editCount = 0
  /\ CacheIdle
  /\ UpdateIdle
  /\ AnalyzeIdle
  /\ DepsIdle
  /\ LaterIdle

\* parseIncremental(filePath, content) without an edit descriptor
ParseFile ==
  LET r == parseIncremental(fileCache[FilePath], content, FALSE, NoEdit)
  IN /\ fileCache' = [fileCache EXCEPT ![FilePath] = r.cache]
     /\ parseResult' = ResultOf(r)
     /\ lastEdit' = NoEdit
     /\ UNCHANGED <<content, editCount>>
     /\ UNCHANGED <<cacheVars, updateVars, analyzeVars, depsVars, laterVars>>

ApplyEdit(op, newContent, startLine, endLine, replaced, written) ==
  LET editInfo == createEditInfo(Len(content), Len(newContent), startLine, endLine)
      r == parseIncremental(fileCache[FilePath], newContent, TRUE, editInfo)
  IN /\ editCount < MaxEdits
     /\ editCount' = editCount + 1
     /\ content' = newContent
     /\ fileCache' = [fileCache EXCEPT ![FilePath] = r.cache]
     /\ parseResult' = ResultOf(r)
     /\ lastEdit' = [op |-> op, startLine |-> startLine, endLine |-> endLine,
                     linesDelta |-> editInfo.linesDelta,
                     replaced |-> replaced, written |-> written]
     /\ UNCHANGED <<cacheVars, updateVars, analyzeVars, depsVars, laterVars>>

\* lines s..e are replaced by the lines of `written` (none: a deletion)
EditReplace ==
  /\ fileCache[FilePath].cached
  /\ \E s \in 1..Len(content), e \in 1..Len(content), written \in SeqsUpTo(Lines, MaxIns) :
       LET newContent == SubSeq(content, 1, s - 1) \o written \o SubSeq(content, e + 1, Len(content))
       IN /\ s <= e
          /\ Len(newContent) >= 1
          /\ Len(newContent) <= MaxLines
          /\ ApplyEdit("replace", newContent, s, e, SubSeq(content, s, e), written)

\* the lines of `written` are inserted after line l (l = 0: before the first line)
EditInsert ==
  /\ fileCache[FilePath].cached
  /\ \E l \in 0..Len(content), written \in SeqsUpTo(Lines, MaxIns) :
       LET newContent == SubSeq(content, 1, l) \o written \o SubSeq(content, l + 1, Len(content))
       IN /\ Len(written) >= 1
          /\ Len(newContent) <= MaxLines
          /\ ApplyEdit("insert", newContent, l, l, <<>>, written)

NextParser == ParseFile \/ EditReplace \/ EditInsert

SpecParser == InitParser /\ [][NextParser]_vars

(***************************************************************************)
(* Properties of the incremental parser                                    *)
(***************************************************************************)
\* first line the last edit wrote to, and the text before the last edit
WrittenFrom == IF lastEdit.op = "insert" THEN lastEdit.startLine + 1 ELSE lastEdit.startLine

TextBefore ==
  SubSeq(content, 1, WrittenFrom - 1) \o lastEdit.replaced
    \o SubSeq(content, WrittenFrom + Len(lastEdit.written), Len(content))

\* brace depth in front of line i
RECURSIVE DepthBefore(_, _)
DepthBefore(lines, i) ==
  IF i <= 1 THEN 0 ELSE DepthAfter(lines[i - 1], DepthBefore(lines, i - 1))

IsExportedDeclaration(line) ==
  Len(line) > 0 /\ line[1] = "export" /\ extractSymbol(line) # NoSymbol

\* the edit range lies after the declaration line and before the last line of a function
InsideFunctionBody(lines, startLine, endLine) ==
  \E k \in 1..Len(fullParse(lines)) :
     LET sym == fullParse(lines)[k]
     IN sym.kind = "function" /\ sym.declarationLine < startLine /\ endLine < sym.endLine

\* C1: whenever parseIncremental answers skip or partial, the symbols it returns have the
\* names and kinds, in order, that a full parse of the new text gives.
C1_SkipOrPartialAgreesWithFullParse ==
  parseResult.parseStrategy \in {"skip", "partial"}
    => NameKinds(parseResult.symbols) = NameKinds(fullParse(content))

\* C2: inserting one new exported declaration at the top level of a cached file, at any
\* position and in any form the full parser recognises, gives strategy full.
C2_InsertedDeclarationForcesFull ==
  ( /\ lastEdit.op = "insert"
    /\ Len(lastEdit.written) = 1
    /\ IsExportedDeclaration(lastEdit.written[1])
    /\ DepthBefore(content, WrittenFrom) = 0 )
    => parseResult.parseStrategy = "full"

\* C3: an edit whose lines lie inside a function body of the cached file is decided skip or
\* partial, and the symbols returned have the names and kinds of a full parse of the new text.
C3_BodyEditSkipsAndAgrees ==
  ( /\ lastEdit.op # "none"
    /\ InsideFunctionBody(TextBefore, lastEdit.startLine, lastEdit.endLine) )
    => /\ parseResult.parseStrategy \in {"skip", "partial"}
       /\ NameKinds(parseResult.symbols) = NameKinds(fullParse(content))

\* the scenario of a.ts: line 2 `export function f(){ return 1; }` rewritten to return 2
ScenarioEdited ==
  /\ content = <<LConstX, LFnRet2>>
  /\ lastEdit = [op |-> "replace", startLine |-> 2, endLine |-> 2, linesDelta |-> 0,
                 replaced |-> <<LFnRet1>>, written |-> <<LFnRet2>>]

\* C10 as claimed: the edit of the literal in f's one-line body gives strategy skip and
\* still two symbols.
C10_ScenarioSkips ==
  ScenarioEdited => parseResult.parseStrategy = "skip" /\ Len(parseResult.symbols) = 2

\* C10 amended: the edited line is f's declaration line, so the strategy is full; the
\* symbols are still the two, X and f.
C10_ScenarioFullTwoSymbols ==
  ScenarioEdited
    => /\ parseResult.parseStrategy = "full"
       /\ NameKinds(parseResult.symbols) = <<(<<"X", "variable">>), (<<"f", "function">>)>>

C10_Witness ==
  ScenarioEdited /\ parseResult.parseStrategy = "full" /\ Len(parseResult.symbols) = 2

Positions(symbols) ==
  [k \in 1..Len(symbols) |->
     <<symbols[k].startLine, symbols[k].endLine, symbols[k].declarationLine>>]

\* C14: after an edit that is decided skip or partial and keeps the names and kinds of the
\* symbols, the start, end and declaration lines of the symbols returned and of the symbols
\* cached are those a full parse of the new text gives.
C14_AdjustedLinesMatchFullParse ==
  ( /\ lastEdit.op # "none"
    /\ parseResult.parseStrategy \in {"skip", "partial"}
    /\ NameKinds(parseResult.symbols) = NameKinds(fullParse(content)) )
    => /\ Positions(parseResult.symbols) = Positions(fullParse(content))
       /\ Positions(fileCache[FilePath].symbols) = Positions(fullParse(content))

\* the step is an edit reported to parseIncremental that changes the text of the file
EditStep == editCount' = editCount + 1 /\ content' # content

\* the edit range of the step includes the declaration line of a cached symbol
TouchesDeclaration ==
  \E k \in 1..Len(fileCache[FilePath].symbols) :
     fileCache[FilePath].symbols[k].declarationLine \in lastEdit'.startLine..lastEdit'.endLine

\* C33: an edit that changes the file and whose range includes the declaration line of at
\* least one cached symbol is decided full, and the symbols cached for the file afterwards
\* are those of a full parse of the new text.
C33_DeclarationEditForcesFullParse ==
  [][(EditStep /\ TouchesDeclaration)
       => /\ parseResult'.parseStrategy = "full"
          /\ parseResult'.symbols = fullParse(content')
          /\ fileCache'[FilePath].symbols = fullParse(content')
          /\ fileCache'[FilePath].contentHash = quickHash(content')]_vars

\* line 1 `export const X = 1` of a two-symbol file was replaced by a comment: the range
\* held X's declaration line, the parse was full and one symbol is left
C33_Witness ==
  /\ lastEdit.op = "replace"
  /\ lastEdit.startLine = 1 /\ lastEdit.endLine = 1
  /\ lastEdit.replaced = <<LConstX>>
  /\ lastEdit.written = <<LComment>>
  /\ content = <<LComment, LFnRet1>>
  /\ parseResult.parseStrategy = "full"
  /\ NameKinds(fileCache[FilePath].symbols) = <<(<<"f", "function">>)>>

\* the edit range of the step lies after the declaration line and up to the last line of a
\* cached symbol
InsideSymbolBody ==
  \E k \in 1..Len(fileCache[FilePath].symbols) :
     /\ lastEdit'.startLine > fileCache[FilePath].symbols[k].declarationLine
     /\ lastEdit'.endLine <= fileCache[FilePath].symbols[k].endLine

IsPrefix(a, b) == Len(a) <= Len(b) /\ SubSeq(b, 1, Len(a)) = a

\* C4: get returns data only if the hash stored with the data is the hash of the text the
\* file has when get reads it, and then the data is the payload of that text; a file that
\* cannot be read is never served.
C4_ServedOnlyOnHashMatch ==
  getResult.hit
    => /\ getResult.read # Missing
       /\ getResult.hash = computeHash(getResult.read)
       /\ getResult.data = PayloadOf(getResult.read)

\* a hit served from the L2 store for a file whose L1 entry is gone
C4_Witness ==
  getResult.hit /\ getResult.tier = "L2" /\ getResult.data = PayloadOf(<<LConstX, LFnRet1>>)

\* C8: every entry an insertion evicts is, when it is evicted, the resident entry used
\* least recently: the evicted keys are the front of the resident keys in last-use order.
C8_EvictsLeastRecentlyUsed ==
  IsPrefix(lastInsert.evicted, lastInsert.recencyBefore)

\* C9: an insertion evicts oldest-first, leaves the resident entries within the byte budget,
\* and raises the eviction counter by exactly the number of entries it removed.
C9_EvictsOldestFirstAndCounts ==
  /\ IsPrefix(lastInsert.evicted, lastInsert.recencyBefore)
  /\ lastInsert.residentAfter <= maxBytes
  /\ lastInsert.evictionsAfter - lastInsert.evictionsBefore = Len(lastInsert.evicted)

RECURSIVE SumOfSizes(_)
SumOfSizes(keys) ==
  IF keys = {} THEN 0
  ELSE LET k == CHOOSE x \in keys : TRUE
       IN estimateSize(l1Cache[k]) + SumOfSizes(keys \ {k})

\* C38: the eviction order holds every resident key exactly once and no other key, the size
\* getStats reports is the sum of the estimated sizes of the resident entries, and it is
\* within the byte budget
C38_BookkeepingAgreesWithContents ==
  /\ \A k \in DOMAIN l1Cache :
        Cardinality({i \in 1..Len(l1Order) : l1Order[i] = k}) = 1
  /\ \A i \in 1..Len(l1Order) : l1Order[i] \in DOMAIN l1Cache
  /\ getStats.size = SumOfSizes(DOMAIN l1Cache)
  /\ getStats.size <= maxBytes

(***************************************************************************)
(* The graph (src/graph/graphBuilder.ts, src/utils/idGenerator.ts).  A     *)
(* path is the sequence of its components below the project root; the      *)
(* root itself is the empty sequence.                                      *)
(***************************************************************************)
UpdatePaths == << <<"x.ts">>, <<"a", "y.ts">> >>

PathSet == {UpdatePaths[i] : i \in 1..Len(UpdatePaths)}

UpdateTexts == {<<LComment>>, <<LConstX>>, <<LAsyncH>>, <<LComment, LConstX>>}

rootPath == <<>>

rootId == <<"root">>

dirname(path) == SubSeq(path, 1, Len(path) - 1)

basename(path) == IF Len(path) = 0 THEN "project" ELSE path[Len(path)]

\* `path:` followed by the path relative to the root
pathToId(filePath) == <<"path", filePath>>

\* `symbol:` followed by the relative path, the name and the line
symbolToId(symbol) == <<"symbol", symbol.filePath, symbol.name, symbol.line>>

Includes(seq, x) == \E i \in 1..Len(seq) : seq[i] = x

createNode(label, type, filePath, line) ==
  [label |-> label, type |-> type, filePath |-> filePath, line |-> line, children |-> <<>>]

ContainsEdge(source, target) == [source |-> source, target |-> target, type |-> "contains"]

\* the LightweightSymbols of a file: LightweightParser.parseFile on its text
parseFileSymbols(filePath, text) ==
  LET parsed == fullParse(text)
  IN [k \in 1..Len(parsed) |->
        [name |-> parsed[k].name, kind |-> parsed[k].kind, line |-> parsed[k].startLine,
         filePath |-> filePath]]

RECURSIVE AppendNew(_, _)
AppendNew(acc, seq) ==
  IF Len(seq) = 0 THEN acc
  ELSE AppendNew(IF Includes(acc, Head(seq)) THEN acc ELSE Append(acc, Head(seq)), Tail(seq))

\* the folder of the file and every folder above it, up to the root
AncestorFolders(filePath) == [k \in 1..Len(filePath) |-> SubSeq(filePath, 1, Len(filePath) - k)]

RECURSIVE AllFolders(_, _)
AllFolders(acc, fileList) ==
  IF Len(fileList) = 0 THEN acc
  ELSE AllFolders(AppendNew(acc, AncestorFolders(Head(fileList))), Tail(fileList))

\* the folders in the insertion order of the map, each with its files
groupByFolder(fileList) ==
  LET folders == AllFolders(<<>>, fileList)
  IN [i \in 1..Len(folders) |->
        [folderPath |-> folders[i],
         files |-> SelectSeq(fileList, LAMBDA f : dirname(f) = folders[i])]]

PushChild(g, parentId, childId) ==
  [g EXCEPT !.nodes[parentId].children = Append(@, childId)]

PushChildOnce(g, parentId, childId) ==
  IF Includes(g.nodes[parentId].children, childId) THEN g ELSE PushChild(g, parentId, childId)

PushEdge(g, source, target) == [g EXCEPT !.edges = Append(@, ContainsEdge(source, target))]

SetNode(g, id, node) == [g EXCEPT !.nodes = MapSet(@, id, node)]

\* build: the loop body that creates one folder node and links it to its parent
buildFolderNode(g, folderPath) ==
  IF folderPath = rootPath THEN g
  ELSE LET folderId == pathToId(folderPath)
           parentPath == dirname(folderPath)
           parentId == IF parentPath = rootPath THEN rootId ELSE pathToId(parentPath)
           withNode == SetNode(g, folderId, createNode(basename(folderPath), "folder", <<>>, 0))
           linked == IF parentId \in DOMAIN withNode.nodes
                       THEN PushChildOnce(withNode, parentId, folderId)
                       ELSE PushChildOnce(withNode, rootId, folderId)
       IN PushEdge(linked, parentId, folderId)

RECURSIVE buildFileNodes(_, _, _)
buildFileNodes(g, folderPath, fileList) ==
  IF Len(fileList) = 0 THEN g
  ELSE LET filePath == Head(fileList)
           fileId == pathToId(filePath)
           containerId == IF folderPath = rootPath THEN rootId ELSE pathToId(folderPath)
           withNode == SetNode(g, fileId, createNode(basename(filePath), "file", filePath, 0))
           linked == PushChildOnce(withNode, containerId, fileId)
       IN buildFileNodes(PushEdge(linked, containerId, fileId), folderPath, Tail(fileList))

RECURSIVE buildFolders(_, _)
buildFolders(g, folderMap) ==
  IF Len(folderMap) = 0 THEN g
  ELSE buildFolders(
         buildFileNodes(buildFolderNode(g, Head(folderMap).folderPath),
                        Head(folderMap).folderPath, Head(folderMap).files),
         Tail(folderMap))

\* symbol nodes keyed without their line
addSymbolNode_KeyWithoutLine(g, symbol) ==
  LET fileId == pathToId(symbol.filePath)
      symbolId == <<"symbol", symbol.filePath, symbol.name, 0>>
      withNode == SetNode(g, symbolId, createNode(symbol.name, symbol.kind, symbol.filePath, symbol.line))
  IN PushEdge(PushChild(withNode, fileId, symbolId), fileId, symbolId)

\* one symbol node under its file node, with the containment edge
addSymbolNode(g, symbol) ==
  LET fileId == pathToId(symbol.filePath)
      symbolId == symbolToId(symbol)
      withNode == SetNode(g, symbolId, createNode(symbol.name, symbol.kind, symbol.filePath, symbol.line))
  IN PushEdge(PushChild(withNode, fileId, symbolId), fileId, symbolId)

RECURSIVE buildSymbolNodes(_, _)
buildSymbolNodes(g, symbols) ==
  IF Len(symbols) = 0 THEN g
  ELSE buildSymbolNodes(
         IF pathToId(Head(symbols).filePath) \in DOMAIN g.nodes
           THEN addSymbolNode(g, Head(symbols)) ELSE g,
         Tail(symbols))

\* GraphBuilder.build(symbols, files)
build(symbols, fileList) ==
  LET root == [nodes |-> MapSet(EmptyMap, rootId, createNode(basename(rootPath), "root", <<>>, 0)),
               edges |-> <<>>]
  IN buildSymbolNodes(buildFolders(root, groupByFolder(fileList)), symbols)

(***************************************************************************)
(* IncrementalUpdateManager (src/analysis/incrementalUpdateManager.ts).    *)
(* The operators below work on a record m of the fields a handler reads    *)
(* and writes: nodes, edges, fileCache and fileContentCache.               *)
(***************************************************************************)
debounceMs == 3    \* the debounce window, in units of 100 ms

RECURSIVE addSymbolNodes(_, _)
addSymbolNodes(m, symbols) ==
  IF Len(symbols) = 0 THEN m ELSE addSymbolNodes(addSymbolNode(m, Head(symbols)), Tail(symbols))

\* the graph part of handleFileCreated, after parseFile has returned the symbols
handleFileCreated(m, filePath, symbols) ==
  LET fileId == pathToId(filePath)
      folderId == pathToId(dirname(filePath))
      withNode == SetNode(m, fileId, createNode(basename(filePath), "file", filePath, 0))
      linked == IF folderId \in DOMAIN withNode.nodes
                  THEN PushEdge(PushChild(withNode, folderId, fileId), folderId, fileId)
                  ELSE withNode
  IN addSymbolNodes(linked, symbols)

handleFileCreatedWithSymbols(m, filePath, cachedSymbols) ==
  handleFileCreated(m, filePath,
    [k \in 1..Len(cachedSymbols) |->
       [name |-> cachedSymbols[k].name, kind |-> cachedSymbols[k].kind,
        line |-> cachedSymbols[k].startLine, filePath |-> filePath]])

RemoveFirst(seq, x) ==
  IF IndexOf(seq, x) = 0 THEN seq
  ELSE SubSeq(seq, 1, IndexOf(seq, x) - 1) \o SubSeq(seq, IndexOf(seq, x) + 1, Len(seq))

handleFileDeleted(m, filePath) ==
  LET fileId == pathToId(filePath)
      folderId == pathToId(dirname(filePath))
  IN IF fileId \notin DOMAIN m.nodes THEN m
     ELSE LET fileChildren == m.nodes[fileId].children
              removed == {fileId} \cup {fileChildren[i] : i \in 1..Len(fileChildren)}
              remaining == [id \in DOMAIN m.nodes \ removed |-> m.nodes[id]]
              unlinked == IF folderId \in DOMAIN remaining
                            THEN [remaining EXCEPT ![folderId].children = RemoveFirst(@, fileId)]
                            ELSE remaining
          IN [m EXCEPT !.nodes = unlinked,
                       !.edges = SelectSeq(@, LAMBDA edge :
                                    /\ edge.source # fileId
                                    /\ edge.target # fileId
                                    /\ ~Includes(fileChildren, edge.source)
                                    /\ ~Includes(fileChildren, edge.target))]

CacheOf(cacheMap, filePath) ==
  IF filePath \in DOMAIN cacheMap THEN cacheMap[filePath] ELSE NoCache

Max(a, b) == IF a >= b THEN a ELSE b

\* the partial branch of handleFileChanged: the children of the file node take the start
\* line of the first cached symbol with their label and type
updateChildLines(m, filePath, symbols) ==
  LET fileId == pathToId(filePath)
      Match(node) == SelectSeq(symbols, LAMBDA cs : cs.name = node.label /\ cs.kind = node.type)
  IN IF fileId \notin DOMAIN m.nodes THEN m
     ELSE LET fileChildren == m.nodes[fileId].children
              touched == {fileChildren[i] : i \in 1..Len(fileChildren)} \cap DOMAIN m.nodes
          IN [m EXCEPT !.nodes =
                [id \in DOMAIN m.nodes |->
                   IF id \in touched /\ m.nodes[id].line # 0 /\ Len(Match(m.nodes[id])) > 0
                     THEN [m.nodes[id] EXCEPT !.line = Match(m.nodes[id])[1].startLine]
                     ELSE m.nodes[id]]]

handleFileChanged(m, filePath, text) ==
  IF text = Missing THEN handleFileDeleted(m, filePath)
  ELSE LET oldLineCount == IF filePath \in DOMAIN m.fileContentCache
                             THEN m.fileContentCache[filePath] ELSE 0
           newLineCount == Len(text)
           editInfo == createEditInfo(oldLineCount, newLineCount, 1, Max(oldLineCount, newLineCount))
           result == parseIncremental(CacheOf(m.fileCache, filePath), text, TRUE, editInfo)
           parsed == [m EXCEPT !.fileCache = MapSet(@, filePath, result.cache),
                               !.fileContentCache = MapSet(@, filePath, newLineCount)]
       IN IF result.parseStrategy = "skip" /\ Len(result.affectedSymbols) = 0 THEN parsed
          ELSE IF result.parseStrategy = "partial" /\ Len(result.affectedSymbols) = 0
            THEN updateChildLines(parsed, filePath, result.symbols)
          ELSE handleFileCreatedWithSymbols(handleFileDeleted(parsed, filePath), filePath, result.symbols)

\* the for loop of processPendingChanges from change i on, up to the next await of
\* parser.parseFile (a created change) or to the end of the list; the field next is the
\* change the batch is suspended at, Len(changes) + 1 when it is the await of the git status
RECURSIVE runChanges(_, _, _)
runChanges(m, changes, i) ==
  IF i > Len(changes) \/ changes[i].type = "created"
    THEN [m |-> m, next |-> i]
  ELSE IF changes[i].type = "deleted"
    THEN runChanges(handleFileDeleted(m, changes[i].filePath), changes, i + 1)
  ELSE runChanges(handleFileChanged(m, changes[i].filePath, disk[changes[i].filePath]), changes, i + 1)

ManagerFields ==
  [nodes |-> nodes, edges |-> edges, fileCache |-> fileCache, fileContentCache |-> fileContentCache]

InstallFields(m) ==
  /\ nodes' = m.nodes
  /\ edges' = m.edges
  /\ fileCache' = m.fileCache
  /\ fileContentCache' = m.fileContentCache

\* initializeFileCache: every file node whose file can be read
RECURSIVE initializeFileCache(_, _)
initializeFileCache(m, fileList) ==
  IF Len(fileList) = 0 THEN m
  ELSE LET filePath == Head(fileList)
           r == parseIncremental(CacheOf(m.fileCache, filePath), disk[filePath], FALSE, NoEdit)
       IN initializeFileCache(
            [m EXCEPT !.fileContentCache = MapSet(@, filePath, Len(disk[filePath])),
                      !.fileCache = MapSet(@, filePath, r.cache)],
            Tail(fileList))

RECURSIVE parseFiles(_)
parseFiles(fileList) ==
  IF Len(fileList) = 0 THEN <<>>
  ELSE parseFileSymbols(Head(fileList), disk[Head(fileList)]) \o parseFiles(Tail(fileList))

\* registerChange: the entry of the path is overwritten in place, a new path goes to the end
setPending(pending, change) ==
  IF \E i \in 1..Len(pending) : pending[i].filePath = change.filePath
    THEN [i \in 1..Len(pending) |->
            IF pending[i].filePath = change.filePath THEN change ELSE pending[i]]
    ELSE Append(pending, change)

\* a registerChange that leaves a running timer running
restartTimer_KeepRunning(left) == left

\* the time the timer set by registerChange runs when the previous timer had `left` to
\* run: the previous timer is cleared and a new one is set for the whole window
restartTimer(left) == debounceMs

(***************************************************************************)
(* StatisticsCalculator (src/graph/statisticsCalculator.ts) and the git    *)
(* status overlay (GraphBuilder.applyGitStatus, updateGitStatus).          *)
(***************************************************************************)
CountOfType(ns, t) == Cardinality({id \in DOMAIN ns : ns[id].type = t})

\* calculate: a new statistics object
calculate(ns, es) ==
  [object |-> 1,
   totalNodes |-> Cardinality(DOMAIN ns),
   totalEdges |-> Len(es),
   byType |-> [t \in NodeTypes |-> CountOfType(ns, t)]]

\* an update that writes the two totals and leaves byType as it is
updateInPlace_TotalsOnly(existing, ns, es) ==
  [existing EXCEPT !.totalNodes = Cardinality(DOMAIN ns), !.totalEdges = Len(es)]

\* updateInPlace: the fields of the existing object are overwritten
updateInPlace(existing, ns, es) ==
  [existing EXCEPT !.totalNodes = Cardinality(DOMAIN ns),
                !.totalEdges = Len(es),
                !.byType = [t \in DOMAIN existing.byType |-> CountOfType(ns, t)]]

\* the text every file has in the commit that is checked out
HeadText == <<LComment>>

\* getChanges: the files of the working tree d that differ from the commit, in the order
\* of the paths, a file that is gone as deleted and any other as modified
getChanges(d) ==
  SelectSeq([i \in 1..Len(UpdatePaths) |->
               [filePath |-> UpdatePaths[i],
                status |-> IF d[UpdatePaths[i]] = Missing THEN "deleted" ELSE "modified"]],
            LAMBDA c : d[c.filePath] # HeadText)

SetStatus(st, ids, status) ==
  [id \in DOMAIN st \cup ids |-> IF id \in ids THEN status ELSE st[id]]

ChildIds(ns, id) == {ns[id].children[i] : i \in 1..Len(ns[id].children)}

\* the loop over gitChanges.changes: the status goes to the file node and to its children
RECURSIVE applyToFiles(_, _, _)
applyToFiles(st, ns, changes) ==
  IF Len(changes) = 0 THEN st
  ELSE LET fileId == pathToId(Head(changes).filePath)
       IN applyToFiles(
            IF fileId \in DOMAIN ns
              THEN SetStatus(st, {fileId} \cup (ChildIds(ns, fileId) \cap DOMAIN ns),
                             Head(changes).status)
              ELSE st,
            ns, Tail(changes))

folderIdOf(folderPath) == IF folderPath = rootPath THEN rootId ELSE pathToId(folderPath)

\* the folders from the directory of a changed file of the graph up to the root
foldersWithChanges(ns, changes) ==
  UNION {{SubSeq(changes[i].filePath, 1, k) : k \in 0..(Len(changes[i].filePath) - 1)} :
           i \in {j \in 1..Len(changes) : pathToId(changes[j].filePath) \in DOMAIN ns}}

\* applyGitStatus(graph, gitChanges), on the status the nodes have
applyGitStatus(st, ns, changes) ==
  IF Len(changes) = 0 THEN st
  ELSE LET applied == applyToFiles(st, ns, changes)
           marked == {folderIdOf(p) : p \in foldersWithChanges(ns, changes)}
       IN SetStatus(applied, {id \in marked \cap DOMAIN ns : id \notin DOMAIN applied}, "modified")

\* updateGitStatus: every status is cleared, then the loop over the changes
updateGitStatus(ns, changes) == applyToFiles(EmptyMap, ns, changes)

InitUpdate ==
  /\ disk \in [PathSet -> UpdateTexts \cup {Missing}]
  /\ graphSet = FALSE
  /\ nodes = EmptyMap
  /\ edges = <<>>
  /\ fileContentCache = EmptyMap
  /\ pendingChanges = <<>>
  /\ debounceTimer = "null"
  /\ timerLeft = 0
  /\ batches = <<>>
  /\ sinceChange = 0
  /\ lastStart = NoStart
  /\ lastCall = NoCalls
  /\ eventCount = 0
  /\ watched = InSync
  /\ content = <<LComment>>
  /\ fileCache = EmptyMap
  /\ parseResult = NoResult
  /\ lastEdit = NoEdit
  /\ editCount = 0
  /\ CacheIdle
  /\ AnalyzeIdle
  /\ DepsIdle
  /\ LaterIdle

UpdateFrame == UNCHANGED <<content, parseResult, lastEdit, editCount, cacheVars, analyzeVars, depsVars, resolverVars, pureVars>>

\* a handler that does not overlay: the statistics stay, and a node that is removed takes
\* its status with it
KeepOverlay ==
  /\ gitStatus' = [id \in DOMAIN gitStatus \cap DOMAIN nodes' |-> gitStatus[id]]
  /\ UNCHANGED statistics

\* the initial analysis of the files on disk with its git overlay, then setGraph(graph)
SetGraph ==
  /\ ~graphSet
  /\ graphSet' = TRUE
  /\ LET fileList == SelectSeq(UpdatePaths, LAMBDA f : disk[f] # Missing)
         g == build(parseFiles(fileList), fileList)
     IN /\ InstallFields(initializeFileCache(
             [nodes |-> g.nodes, edges |-> g.edges, fileCache |-> fileCache,
              fileContentCache |-> fileContentCache], fileList))
        /\ statistics' = calculate(g.nodes, g.edges)
        /\ gitStatus' = applyGitStatus(EmptyMap, g.nodes, getChanges(disk))
  /\ watched' = [watched EXCEPT !.owed = EmptyMap]
  /\ UNCHANGED <<disk, pendingChanges, debounceTimer, timerLeft, batches, sinceChange,
                 lastStart, lastCall, eventCount>>
  /\ UpdateFrame

\* what a watcher reports for a write: the file appeared, went away or has a new text
typeOfWrite(old, new) ==
  IF old = Missing THEN "created" ELSE IF new = Missing THEN "deleted" ELSE "changed"

\* the bookkeeping of an accepted registerChange: it reports the latest write of the file
\* when it names its type; with no write to report it is faithful when it names a file that
\* exists as created or changed, or one that does not exist as deleted
reported(w, f, type) ==
  IF ~graphSet THEN [w EXCEPT !.faithful = FALSE]
  ELSE IF f \in DOMAIN w.owed
    THEN IF w.owed[f] = type THEN [w EXCEPT !.owed = MapDelete(@, f)]
         ELSE [w EXCEPT !.faithful = FALSE]
  ELSE [w EXCEPT !.faithful = @ /\ ((type = "deleted") <=> (disk[f] = Missing))]

\* a file is written, created or removed on disk
DiskWrite ==
  /\ eventCount < MaxEvents
  /\ eventCount' = eventCount + 1
  /\ \E f \in PathSet, text \in UpdateTexts \cup {Missing} :
       /\ disk[f] # text
       /\ disk' = [disk EXCEPT ![f] = text]
       /\ watched' = [watched EXCEPT !.owed = MapSet(@, f, typeOfWrite(disk[f], text))]
  /\ UNCHANGED <<graphSet, nodes, edges, fileContentCache, pendingChanges, debounceTimer,
                 timerLeft, batches, sinceChange, lastStart, lastCall, fileCache>>
  /\ UNCHANGED overlayVars
  /\ UpdateFrame

\* the paths the file watchers report: the source files, a file that is not TypeScript and
\* a TypeScript file below an excluded directory
WatchedPaths == PathSet \cup {<<"r.md">>, <<"dist", "z.ts">>}

EndsWithTs(filePath) == basename(filePath) \in {"x.ts", "y.ts", "z.ts"}

IncludesExcluded(filePath) == \E i \in 1..Len(filePath) : filePath[i] \in {"node_modules", "dist"}

\* registerChange(filePath, type); the two early returns leave every field as it is
RegisterChange ==
  /\ eventCount < MaxEvents
  /\ \E f \in WatchedPaths, type \in {"created", "changed", "deleted"} :
       IF ~EndsWithTs(f) \/ IncludesExcluded(f)
         THEN UNCHANGED <<pendingChanges, debounceTimer, timerLeft, sinceChange, lastCall,
                          eventCount, watched>>
         ELSE /\ pendingChanges' = setPending(pendingChanges, [filePath |-> f, type |-> type])
              /\ debounceTimer' = "armed"
              /\ timerLeft' = restartTimer(IF debounceTimer = "armed" THEN timerLeft ELSE debounceMs)
              /\ sinceChange' = 0
              /\ lastCall' = [type |-> MapSet(lastCall.type, f, type), calls |-> lastCall.calls + 1]
              /\ eventCount' = eventCount + 1
              /\ watched' = reported(watched, f, type)
  /\ UNCHANGED <<disk, graphSet, nodes, edges, fileContentCache, batches, lastStart, fileCache>>
  /\ UNCHANGED overlayVars
  /\ UpdateFrame

Min(a, b) == IF a <= b THEN a ELSE b

\* time passes by one unit while the timer runs; the time since the last registerChange
\* is counted up to the debounce window
Tick ==
  /\ debounceTimer = "armed"
  /\ timerLeft > 0
  /\ timerLeft' = timerLeft - 1
  /\ sinceChange' = Min(sinceChange + 1, debounceMs)
  /\ UNCHANGED <<disk, graphSet, nodes, edges, fileContentCache, pendingChanges,
                 debounceTimer, batches, lastStart, lastCall, eventCount, watched, fileCache>>
  /\ UNCHANGED overlayVars
  /\ UpdateFrame

\* processPendingChanges that returns at once while an earlier execution is in progress
StartBatch_SkipsWhileBatchRuns(by) ==
  IF Len(pendingChanges) = 0 \/ ~graphSet \/ Len(batches) > 0
    THEN UNCHANGED <<nodes, edges, fileCache, fileContentCache, pendingChanges, batches,
                     lastStart, lastCall>>
    ELSE LET run == runChanges(ManagerFields, pendingChanges, 1)
         IN /\ InstallFields(run.m)
            /\ pendingChanges' = <<>>
            /\ batches' = Append(batches, [changes |-> pendingChanges, next |-> run.next])
            /\ lastStart' = [by |-> by, elapsed |-> sinceChange, calls |-> lastCall.calls,
                           nodesBefore |-> DOMAIN nodes]
            /\ lastCall' = NoCalls

\* processPendingChanges up to its first await
StartBatch(by) ==
  IF Len(pendingChanges) = 0 \/ ~graphSet
    THEN UNCHANGED <<nodes, edges, fileCache, fileContentCache, pendingChanges, batches,
                     lastStart, lastCall>>
    ELSE LET run == runChanges(ManagerFields, pendingChanges, 1)
         IN /\ InstallFields(run.m)
            /\ pendingChanges' = <<>>
            /\ batches' = Append(batches, [changes |-> pendingChanges, next |-> run.next])
            /\ lastStart' = [by |-> by, elapsed |-> sinceChange, calls |-> lastCall.calls,
                           nodesBefore |-> DOMAIN nodes]
            /\ lastCall' = NoCalls

\* the debounce timer fires
TimerFires ==
  /\ debounceTimer = "armed"
  /\ timerLeft = 0
  /\ debounceTimer' = "fired"
  /\ StartBatch("timer")
  /\ KeepOverlay
  /\ UNCHANGED <<disk, graphSet, timerLeft, sinceChange, eventCount, watched>>
  /\ UpdateFrame

\* flush()
Flush ==
  /\ debounceTimer' = "null"
  /\ StartBatch("flush")
  /\ \/ debounceTimer # "null"
     \/ Len(pendingChanges) > 0 /\ graphSet
  /\ KeepOverlay
  /\ UNCHANGED <<disk, graphSet, timerLeft, sinceChange, eventCount, watched>>
  /\ UpdateFrame

\* a suspended batch resumes: parseFile has returned (or thrown, for a file that is gone)
\* and the loop runs on to the next await; after the last change getChanges returns, the
\* git status and the statistics are updated and the batch ends
ResumeBatch ==
  /\ \E b \in 1..Len(batches) :
       LET batch == batches[b]
           others == SubSeq(batches, 1, b - 1) \o SubSeq(batches, b + 1, Len(batches))
       IN IF batch.next > Len(batch.changes)
            THEN /\ batches' = others
                 /\ UNCHANGED <<nodes, edges, fileCache, fileContentCache>>
                 /\ gitStatus' = updateGitStatus(nodes, getChanges(disk))
                 /\ statistics' = updateInPlace(statistics, nodes, edges)
            ELSE LET filePath == batch.changes[batch.next].filePath
                     created == IF disk[filePath] = Missing THEN ManagerFields
                                ELSE handleFileCreated(ManagerFields, filePath,
                                       parseFileSymbols(filePath, disk[filePath]))
                     run == runChanges(created, batch.changes, batch.next + 1)
                 IN /\ InstallFields(run.m)
                    /\ batches' = [batches EXCEPT ![b].next = run.next]
                    /\ KeepOverlay
  /\ UNCHANGED <<disk, graphSet, pendingChanges, debounceTimer, timerLeft, sinceChange,
                 lastStart, lastCall, eventCount, watched>>
  /\ UpdateFrame

NextUpdate ==
  SetGraph \/ DiskWrite \/ RegisterChange \/ Tick \/ TimerFires \/ Flush \/ ResumeBatch

SpecUpdate == InitUpdate /\ [][NextUpdate]_vars

(***************************************************************************)
(* SpecUpdateLive: the manager over a workspace that holds x.ts and not    *)
(* a/y.ts, with dispose().  Time passes while a timer runs, a timer that   *)
(* is due fires, and the promise a batch awaits settles: the event loop    *)
(* runs each of the three when it stays possible.                          *)
(***************************************************************************)
InitUpdateLive ==
  /\ InitUpdate
  /\ disk = [f \in PathSet |-> IF f = <<"x.ts">> THEN <<LConstX>> ELSE Missing]

\* dispose(): the timer is cleared, its handle stays in the field like that of a timer that
\* has fired; the pending changes and the two caches are emptied.  An execution of
\* processPendingChanges that is suspended goes on.
Dispose ==
  /\ debounceTimer' = IF debounceTimer = "armed" THEN "fired" ELSE debounceTimer
  /\ pendingChanges' = <<>>
  /\ fileContentCache' = EmptyMap
  /\ fileCache' = EmptyMap
  /\ UNCHANGED <<disk, graphSet, nodes, edges, timerLeft, batches, sinceChange, lastStart,
                 lastCall, eventCount, watched>>
  /\ UNCHANGED overlayVars
  /\ UpdateFrame

NextUpdateLive ==
  SetGraph \/ RegisterChange \/ Tick \/ TimerFires \/ Flush \/ ResumeBatch \/ Dispose

\* a timer that is due; TimerFires is enabled exactly then
TimerDue == debounceTimer = "armed" /\ timerLeft = 0

\* an execution of processPendingChanges waits at an await; ResumeBatch is enabled exactly
\* then
BatchSuspended == Len(batches) > 0

\* weak fairness of Tick, of TimerFires and of ResumeBatch; for the latter two it is
\* written out with the enabling condition of the action
SpecUpdateLive ==
  /\ InitUpdateLive
  /\ [][NextUpdateLive]_vars
  /\ WF_vars(Tick)
  /\ (<>[]TimerDue => []<><<TimerFires>>_vars)
  /\ (<>[]BatchSuspended => []<><<ResumeBatch>>_vars)


\* C20: a clear() leaves the counters hits, misses and evictions and the size at 0 and no
\* entry in the L1 cache or in the L2 store, so that a get of any readable file directly
\* after it is a miss
C20_ClearResetsAllState ==
  [][Clear =>
       /\ getStats'.hits = 0
       /\ getStats'.misses = 0
       /\ getStats'.evictions = 0
       /\ getStats'.size = 0
       /\ l1Cache' = EmptyMap
       /\ workspaceState' = EmptyMap
       /\ \A p \in CachePaths :
             files'[p] # Missing
               => getTier(Manager', workspaceState', getCacheKey(p), getFileHash(p)') = "miss"]_vars

\* what get(filePath) answers from the cache m, the L2 store l2 and the texts fs
ServedBy(m, l2, fs, filePath) ==
  LET key == getCacheKey(filePath)
      tier == IF fs[filePath] = Missing THEN "unreadable"
              ELSE getTier(m, l2, key, computeHash(fs[filePath]))
  IN [tier |-> tier,
      data |-> IF tier = "L1" THEN m.l1Cache[key].data
               ELSE IF tier = "L2" THEN l2[key].data
               ELSE <<>>]

\* C21: an invalidate removes each listed key from both tiers, so that a get of its file
\* is a miss although the text is unchanged; every other file is served as before; and a
\* key that is in neither tier stays out of both until a set stores it.
C21_InvalidateRemovesListedOnly ==
  [][/\ \A filePaths \in SUBSET CachePaths :
          (filePaths # {} /\ invalidate(filePaths))
            => /\ \A f \in filePaths :
                    /\ getCacheKey(f) \notin DOMAIN l1Cache'
                    /\ getCacheKey(f) \notin DOMAIN workspaceState'
                    /\ files'[f] # Missing
                         => ServedBy(Manager', workspaceState', files', f).tier = "miss"
               /\ \A f \in CachePaths \ filePaths :
                    ServedBy(Manager', workspaceState', files', f)
                      = ServedBy(Manager, workspaceState, files, f)
     /\ \A f \in CachePaths :
          ( /\ getCacheKey(f) \notin DOMAIN l1Cache
            /\ getCacheKey(f) \notin DOMAIN workspaceState
            /\ getCacheKey(f) \in DOMAIN l1Cache' \cup DOMAIN workspaceState' )
            => /\ lastInsert'.key = getCacheKey(f)
               /\ getCacheKey(f) \in DOMAIN workspaceState']_vars

\* a file that was served on a hit and is unchanged since, and whose key is in neither tier
C21_Witness ==
  /\ getResult.hit
  /\ files[getResult.filePath] = getResult.read
  /\ getCacheKey(getResult.filePath) \notin DOMAIN l1Cache
  /\ getCacheKey(getResult.filePath) \notin DOMAIN workspaceState

(***************************************************************************)
(* Properties of the graph and of the incremental update manager            *)
(***************************************************************************)
ContainsParents(id) ==
  {i \in 1..Len(edges) : edges[i].type = "contains" /\ edges[i].target = id}

\* C5: once the graph is built and no batch is in progress, every node except the root is
\* the target of exactly one contains edge
C5_EveryNodeHasOneContainsParent ==
  (graphSet /\ Len(batches) = 0) =>
    \A id \in DOMAIN nodes \ {rootId} : Cardinality(ContainsParents(id)) = 1

\* C6: the pending changes hold at most one entry per path, the type of an entry is the
\* type of the latest registerChange for its path, and a batch the timer starts starts a
\* whole debounce window after the latest registerChange
C6_CoalescedAndDebounced ==
  /\ \A i, j \in 1..Len(pendingChanges) :
       pendingChanges[i].filePath = pendingChanges[j].filePath => i = j
  /\ \A i \in 1..Len(pendingChanges) :
       /\ pendingChanges[i].filePath \in DOMAIN lastCall.type
       /\ pendingChanges[i].type = lastCall.type[pendingChanges[i].filePath]
  /\ lastStart.by = "timer" => lastStart.elapsed >= debounceMs
  /\ Len(batches) > 0 => lastStart.by \in {"timer", "flush"}

\* a burst of two calls for one path was coalesced and the timer then started its batch
C6_Witness ==
  /\ lastStart.calls = 2
  /\ lastStart.by = "timer"
  /\ Len(batches) = 1
  /\ Len(batches[1].changes) = 1

\* C7: at most one execution of processPendingChanges is in progress at any time
C7_NoOverlappingBatches == Len(batches) <= 1

SymbolNodes == {id \in DOMAIN nodes : nodes[id].type \notin {"root", "folder", "file"}}

\* C13: the id of every symbol node is symbolToId of the node's file path, name and line
C13_SymbolIdIsFunctionOfPathNameLine ==
  \A id \in SymbolNodes :
     id = symbolToId([filePath |-> nodes[id].filePath, name |-> nodes[id].label,
                      line |-> nodes[id].line])

\* an incremental update has added a symbol node that is declared on line 2
C13_Witness ==
  /\ lastStart.by # "none"
  /\ \E id \in SymbolNodes \ lastStart.nodesBefore : nodes[id].line = 2

\* the only batch there has been is at its last await, with every change applied
OnlyBatchApplied ==
  /\ Len(batches) = 1
  /\ batches[1].next > Len(batches[1].changes)
  /\ Len(batches[1].changes) = eventCount

\* a change has been accepted while a graph is set: it is pending and the timer runs
ChangeAccepted == graphSet /\ debounceTimer = "armed" /\ Len(pendingChanges) > 0

\* every accepted change has been taken by a batch, and every batch has run to its end
AllHandled == lastCall.calls = 0 /\ pendingChanges = <<>> /\ batches = <<>>

\* accepted changes that no batch has taken are no longer pending: dispose() dropped them
Dropped == lastCall.calls > 0 /\ pendingChanges = <<>>

\* C39 as claimed: every change accepted while a graph is set is eventually handled by a
\* batch that runs to its end, leaving nothing pending.
C39_AcceptedChangeHandled == ChangeAccepted ~> AllHandled

\* C39 amended: every change accepted while a graph is set is eventually handled by a batch
\* that runs to its end, leaving nothing pending, unless dispose() drops it before a batch
\* takes it; a change accepted while a batch is in progress is taken by a later batch.
C39_AcceptedChangeHandledUnlessDisposed == ChangeAccepted ~> (AllHandled \/ Dropped)

\* two changes have been accepted; the timer has started a batch for the later one alone,
\* the batch has patched the graph and has run to its end, and nothing is pending
C39_Witness ==
  /\ graphSet
  /\ eventCount = 2
  /\ lastStart.by = "timer"
  /\ lastStart.calls = 1
  /\ lastStart.nodesBefore # DOMAIN nodes
  /\ AllHandled

\* the step in which processPendingChanges is entered with changes to process
BatchStarts == Len(batches') > Len(batches)

\* the edit descriptors a caller may hand to parseIncremental
EditDescriptors ==
  [startLine : 0..MaxLines, endLine : 0..MaxLines, linesDelta : (0 - MaxLines)..MaxLines]

\* the file is on disk with the text whose hash its cache entry holds
HashUnchanged(filePath) ==
  /\ disk[filePath] # Missing
  /\ CacheOf(fileCache, filePath).cached
  /\ CacheOf(fileCache, filePath).contentHash = quickHash(disk[filePath])

\* C35: for a file whose new content has the cached hash, parseIncremental answers skip with
\* the cached symbols and no affected symbols for every edit descriptor and leaves the cache
\* entry as it is; a batch whose changes are all of this kind leaves the parser's cache and
\* the nodes and edges of the graph as they were.
C35_EqualHashSkipsAndKeepsGraph ==
  [][(BatchStarts /\ \A i \in 1..Len(pendingChanges) :
                       /\ pendingChanges[i].type = "changed"
                       /\ HashUnchanged(pendingChanges[i].filePath))
       => /\ \A i \in 1..Len(pendingChanges), editInfo \in EditDescriptors :
               LET cached == fileCache[pendingChanges[i].filePath]
               IN parseIncremental(cached, disk[pendingChanges[i].filePath], TRUE, editInfo)
                    = [symbols |-> cached.symbols, parseStrategy |-> "skip",
                       affectedSymbols |-> <<>>, cache |-> cached]
          /\ fileCache' = fileCache
          /\ nodes' = nodes
          /\ edges' = edges]_vars

\* x.ts was reported changed without having been written, and the batch has run
C35_Witness ==
  /\ eventCount = 1
  /\ Len(batches) = 1
  /\ batches[1].changes = <<[filePath |-> <<"x.ts">>, type |-> "changed"]>>
  /\ HashUnchanged(<<"x.ts">>)
  /\ Len(fileCache[<<"x.ts">>].symbols) = 1
  /\ pathToId(<<"x.ts">>) \in DOMAIN nodes

\* the step in which a batch ends: getChanges has returned, updateGitStatus and
\* updateStatistics run
BatchEnds == Len(batches') < Len(batches)

\* C25: when a batch ends, the statistics object is the one the graph had before, its
\* totalNodes is the number of nodes, its totalEdges the number of edges and byType[t] the
\* number of nodes of type t, for every type t
C25_StatisticsUpdatedInPlace ==
  [][BatchEnds =>
       /\ statistics'.object = statistics.object
       /\ statistics'.totalNodes = Cardinality(DOMAIN nodes')
       /\ statistics'.totalEdges = Len(edges')
       /\ \A t \in NodeTypes : statistics'.byType[t] = CountOfType(nodes', t)]_vars

\* a batch that changed the set of nodes has ended and the statistics count the new set
C25_Witness ==
  /\ graphSet
  /\ batches = <<>>
  /\ lastStart.by # "none"
  /\ lastStart.nodesBefore # DOMAIN nodes
  /\ Cardinality(lastStart.nodesBefore) # Cardinality(DOMAIN nodes)
  /\ statistics.totalNodes = Cardinality(DOMAIN nodes)
  /\ statistics.byType["function"] = 1

\* the step of the initial analysis
InitialOverlay == graphSet' /\ ~graphSet

HasStatus(st, id, status) == id \in DOMAIN st /\ st[id] = status

\* the file node of a reported change and the symbol nodes of the file carry the status of
\* the change, and every folder node above the file has a status
OverlaidOn(st, ns, change) ==
  pathToId(change.filePath) \in DOMAIN ns
    => /\ HasStatus(st, pathToId(change.filePath), change.status)
       /\ \A id \in DOMAIN ns :
            ns[id].filePath = change.filePath /\ ns[id].type # "file"
              => HasStatus(st, id, change.status)
       /\ \A k \in 1..(Len(change.filePath) - 1) :
            pathToId(SubSeq(change.filePath, 1, k)) \in DOMAIN ns
              => pathToId(SubSeq(change.filePath, 1, k)) \in DOMAIN st

\* C26: when the git status is overlaid, at the initial analysis and at the end of a batch,
\* every file node with a reported change and each of its symbol nodes carries the status
\* of the change, and every folder above such a file has a status afterwards
C26_StatusOverlaidAndPropagated ==
  [][InitialOverlay \/ BatchEnds =>
       \A i \in 1..Len(getChanges(disk)) :
          OverlaidOn(gitStatus', nodes', getChanges(disk)[i])]_vars

\* the ids of the nodes the batch removed
RemovedIds == lastStart.nodesBefore \ DOMAIN nodes

\* C22: when a deleted change of a file has been processed, the graph has no node of the
\* file and none of its symbols, and no edge and no children list names a removed node
C22_DeletedFileLeavesNoTrace ==
  OnlyBatchApplied
    => \A k \in 1..Len(batches[1].changes) :
          batches[1].changes[k].type = "deleted"
            => /\ pathToId(batches[1].changes[k].filePath) \notin DOMAIN nodes
               /\ \A id \in SymbolNodes : nodes[id].filePath # batches[1].changes[k].filePath
               /\ \A e \in 1..Len(edges) :
                     edges[e].source \notin RemovedIds /\ edges[e].target \notin RemovedIds
               /\ \A id \in DOMAIN nodes :
                     \A c \in 1..Len(nodes[id].children) : nodes[id].children[c] \notin RemovedIds

\* the graph a full analysis of the files that exist now would build
ExistingFiles == SelectSeq(UpdatePaths, LAMBDA f : disk[f] # Missing)

Rebuild == build(parseFiles(ExistingFiles), ExistingFiles)

FileNodeIds(ns) == {id \in DOMAIN ns : ns[id].type = "file"}

\* the symbol nodes by file, name and kind
SymbolFacts(ns) ==
  {<<ns[id].filePath, ns[id].label, ns[id].type>> :
     id \in {n \in DOMAIN ns : ns[n].type \notin {"root", "folder", "file"}}}

\* a graph is set, nothing is pending, no batch is in progress, and every write since the
\* graph was set has been reported by a registerChange naming what happened to the file
AllChangesProcessed ==
  /\ graphSet
  /\ pendingChanges = <<>>
  /\ batches = <<>>
  /\ watched = InSync

\* C37: after all pending changes have been processed the graph has the file nodes and the
\* symbol nodes, by file, name and kind, that a full rebuild over the files that exist now
\* has, for every order and coalescing of the created, changed and deleted events
C37_PatchedGraphEqualsRebuild ==
  AllChangesProcessed
    => /\ FileNodeIds(nodes) = FileNodeIds(Rebuild.nodes)
       /\ SymbolFacts(nodes) = SymbolFacts(Rebuild.nodes)

(***************************************************************************)
(* LightweightParser (src/analysis/lightweightParser.ts) with the metrics  *)
(* of MetricsCollector, and AnalyzeCommand.execute, which discovers the    *)
(* files, parses them one by one and builds the graph.                     *)
(***************************************************************************)
AnalyzeTexts == {<<LComment>>, <<LConstX, LFnRet1>>}

\* the node kinds that add one to the cyclomatic complexity, as words of the text
BranchWords == {"if", "for", "while", "do", "case", "catch", "?", "&&", "||", "??"}

RECURSIVE CountBranches(_)
CountBranches(words) ==
  IF Len(words) = 0 THEN 0
  ELSE (IF Head(words) \in BranchWords THEN 1 ELSE 0) + CountBranches(Tail(words))

RECURSIVE Flatten(_)
Flatten(lines) == IF Len(lines) = 0 THEN <<>> ELSE Head(lines) \o Flatten(Tail(lines))

\* MetricsCollector.collectNodeMetrics(node).cyclomaticComplexity: base 1 and one per branch
cyclomaticComplexity(lines) == 1 + CountBranches(Flatten(lines))

\* the symbol nodeToSymbol makes of a declaration: line and endLine are one-based,
\* linesOfCode is the difference of the zero-based end line and start line
nodeToSymbol(filePath, text, declaration) ==
  [name |-> declaration.name,
   kind |-> declaration.kind,
   filePath |-> filePath,
   line |-> (declaration.startLine - 1) + 1,
   endLine |-> (declaration.endLine - 1) + 1,
   linesOfCode |-> (declaration.endLine - 1) - (declaration.startLine - 1),
   complexity |-> IF declaration.kind = "function"
                    THEN cyclomaticComplexity(SubSeq(text, declaration.startLine, declaration.endLine))
                    ELSE 1]

extractSymbols(filePath, text) ==
  LET declarations == fullParse(text)
  IN [k \in 1..Len(declarations) |-> nodeToSymbol(filePath, text, declarations[k])]

\* a parseFile that does not store what it parsed
parseFile_NoStore(m, l2, pstats, filePath, text) ==
  [threw |-> text = Missing, hit |-> FALSE,
   symbols |-> IF text = Missing THEN <<>> ELSE extractSymbols(filePath, text),
   m |-> IF text = Missing THEN m ELSE [m EXCEPT !.stats.misses = @ + 1],
   l2 |-> l2, pstats |-> [pstats EXCEPT !.misses = @ + 1]]

\* LightweightParser.parseFile on a file with the given text, Missing when the file
\* cannot be read: the cache is asked first, a miss parses the text and stores the symbols
parseFile(m, l2, pstats, filePath, text) ==
  LET key == getCacheKey(filePath)
      tier == IF text = Missing THEN "unreadable" ELSE getTier(m, l2, key, computeHash(text))
  IN CASE tier = "unreadable" ->
            [threw |-> TRUE, hit |-> FALSE, symbols |-> <<>>, m |-> m, l2 |-> l2,
             pstats |-> [pstats EXCEPT !.misses = @ + 1]]
       [] tier = "L1" ->
            [threw |-> FALSE, hit |-> TRUE, symbols |-> m.l1Cache[key].data,
             m |-> [touchL1(m, key) EXCEPT !.stats.hits = @ + 1], l2 |-> l2,
             pstats |-> [pstats EXCEPT !.hits = @ + 1]]
       [] tier = "L2" ->
            [threw |-> FALSE, hit |-> TRUE, symbols |-> l2[key].data,
             m |-> [setL1(m, key, l2[key]) EXCEPT !.stats.hits = @ + 1], l2 |-> l2,
             pstats |-> [pstats EXCEPT !.hits = @ + 1]]
       [] OTHER ->
            LET symbols == extractSymbols(filePath, text)
                entry == CacheEntryOf(key, symbols, text)
            IN [threw |-> FALSE, hit |-> FALSE, symbols |-> symbols,
                m |-> setL1([m EXCEPT !.stats.misses = @ + 1], key, entry),
                l2 |-> MapSet(l2, key, entry),
                pstats |-> [pstats EXCEPT !.misses = @ + 1]]

NoPrevious == [parsed |-> FALSE]

InitAnalyze ==
  /\ disk \in [PathSet -> AnalyzeTexts \cup {Missing}]
  /\ graphSet = FALSE
  /\ nodes = EmptyMap
  /\ edges = <<>>
  /\ fileContentCache = EmptyMap
  /\ pendingChanges = <<>>
  /\ debounceTimer = "null"
  /\ timerLeft = 0
  /\ batches = <<>>
  /\ sinceChange = 0
  /\ lastStart = NoStart
  /\ lastCall = NoCalls
  /\ eventCount = 0
  /\ watched = InSync
  /\ content = <<LComment>>
  /\ fileCache = EmptyMap
  /\ parseResult = NoResult
  /\ lastEdit = NoEdit
  /\ editCount = 0
  /\ CacheIdle
  /\ AnalyzeIdle
  /\ DepsIdle
  /\ LaterIdle

AnalyzeFrame ==
  UNCHANGED <<parserVars, updateVars, depsVars, laterVars, files, getResult, lastInsert, recency, cacheOps>>

\* execute() up to the first file of parseFiles: the files are discovered, a new parser
\* and a new cancellation token are made
Execute ==
  /\ phase \in {"idle", "done"}
  /\ runs < MaxRuns
  /\ runs' = runs + 1
  /\ discovered' = SelectSeq(UpdatePaths, LAMBDA f : disk[f] # Missing)
  /\ completed' = 0
  /\ allSymbols' = <<>>
  /\ cancelRequested' = FALSE
  /\ parserStats' = [hits |-> 0, misses |-> 0]
  /\ outcomes' = <<>>
  /\ IF Len(discovered') = 0
       THEN phase' = "done" /\ analysisResult' = [NoAnalysis EXCEPT !.returned = "null"]
       ELSE phase' = "parsing" /\ analysisResult' = NoAnalysis
  /\ UNCHANGED <<lastParsed, l1Cache, l1Order, l1SizeBytes, stats, workspaceState>>
  /\ AnalyzeFrame

\* the user cancels the progress notification
Cancel ==
  /\ phase = "parsing"
  /\ ~cancelRequested
  /\ cancelRequested' = TRUE
  /\ UNCHANGED <<phase, discovered, completed, allSymbols, analysisResult, parserStats,
                 outcomes, lastParsed, runs>>
  /\ UNCHANGED <<l1Cache, l1Order, l1SizeBytes, stats, workspaceState>>
  /\ AnalyzeFrame

\* the loop of parseFiles without its try/catch: the failure of a file leaves parseFiles
\* and execute returns null from its own catch
ParseNext_AbortOnFailure ==
  /\ phase = "parsing"
  /\ ~cancelRequested
  /\ completed < Len(discovered)
  /\ LET filePath == discovered[completed + 1]
         r == parseFile(Manager, workspaceState, parserStats, filePath, disk[filePath])
     IN /\ Install(r.m)
        /\ workspaceState' = r.l2
        /\ parserStats' = r.pstats
        /\ allSymbols' = IF r.threw THEN allSymbols ELSE allSymbols \o r.symbols
        /\ outcomes' = Append(outcomes,
             [filePath |-> filePath, threw |-> r.threw, hit |-> r.hit, text |-> disk[filePath],
              symbols |-> r.symbols, hitsBefore |-> parserStats.hits,
              hitsAfter |-> r.pstats.hits,
              previous |-> IF filePath \in DOMAIN lastParsed THEN lastParsed[filePath]
                           ELSE NoPrevious])
        /\ lastParsed' = IF r.threw THEN lastParsed
                         ELSE MapSet(lastParsed, filePath,
                                [parsed |-> TRUE, text |-> disk[filePath], symbols |-> r.symbols])
        /\ phase' = IF r.threw THEN "done" ELSE phase
        /\ analysisResult' = IF r.threw THEN [NoAnalysis EXCEPT !.returned = "null"]
                             ELSE analysisResult
  /\ completed' = completed + 1
  /\ UNCHANGED <<discovered, cancelRequested, runs>>
  /\ AnalyzeFrame

\* one iteration of the loop of parseFiles: the token is polled, the file is parsed,
\* a failure is logged and the loop goes on
ParseNext ==
  /\ phase = "parsing"
  /\ ~cancelRequested
  /\ completed < Len(discovered)
  /\ LET filePath == discovered[completed + 1]
         r == parseFile(Manager, workspaceState, parserStats, filePath, disk[filePath])
     IN /\ Install(r.m)
        /\ workspaceState' = r.l2
        /\ parserStats' = r.pstats
        /\ allSymbols' = IF r.threw THEN allSymbols ELSE allSymbols \o r.symbols
        /\ outcomes' = Append(outcomes,
             [filePath |-> filePath, threw |-> r.threw, hit |-> r.hit, text |-> disk[filePath],
              symbols |-> r.symbols, hitsBefore |-> parserStats.hits,
              hitsAfter |-> r.pstats.hits,
              previous |-> IF filePath \in DOMAIN lastParsed THEN lastParsed[filePath]
                           ELSE NoPrevious])
        /\ lastParsed' = IF r.threw THEN lastParsed
                         ELSE MapSet(lastParsed, filePath,
                                [parsed |-> TRUE, text |-> disk[filePath], symbols |-> r.symbols])
  /\ completed' = completed + 1
  /\ UNCHANGED <<phase, discovered, cancelRequested, analysisResult, runs>>
  /\ AnalyzeFrame

\* parseFiles returns, at the end of the list or at the break; execute returns null when
\* the token is cancelled, and otherwise builds the graph of the symbols and of all the
\* discovered files and returns it with its error list, which nothing was pushed to
FinishAnalysis ==
  /\ phase = "parsing"
  /\ cancelRequested \/ completed = Len(discovered)
  /\ phase' = "done"
  /\ analysisResult' =
       IF cancelRequested THEN [NoAnalysis EXCEPT !.returned = "null"]
       ELSE LET g == build(allSymbols, discovered)
            IN [returned |-> "result", nodes |-> g.nodes, edges |-> g.edges, errors |-> <<>>]
  /\ UNCHANGED <<discovered, completed, allSymbols, cancelRequested, parserStats, outcomes,
                 lastParsed, runs>>
  /\ UNCHANGED <<l1Cache, l1Order, l1SizeBytes, stats, workspaceState>>
  /\ AnalyzeFrame

NextAnalyze == Execute \/ Cancel \/ ParseNext \/ FinishAnalysis \/ DiskWrite

SpecAnalyze == InitAnalyze /\ [][NextAnalyze]_vars

(***************************************************************************)
(* SpecBuild: execute() at the return of parseFiles, for every list of     *)
(* symbols that the parser can return for the file x.ts: declarations in   *)
(* source order, several of them on one line and with one name (merged     *)
(* interfaces, a class and its namespace) included. Beside x.ts the files  *)
(* a/y.ts and a/b/z.ts can be discovered, in either order.                 *)
(***************************************************************************)
MaxSymbols == 2    \* most symbols of the file

ParsedSymbols ==
  {[name |-> n, kind |-> k, filePath |-> <<"x.ts">>, line |-> l, endLine |-> l,
    linesOfCode |-> 0, complexity |-> 1] :
     n \in {"Window", "A"}, k \in {"interface", "class", "namespace"}, l \in 1..2}

SymbolLists ==
  {list \in SeqsUpTo(ParsedSymbols, MaxSymbols) :
     \A i \in 1..(Len(list) - 1) : list[i].line <= list[i + 1].line}

DiscoveredLists ==
  {<< <<"x.ts">> >>,
   << <<"x.ts">>, <<"a", "y.ts">> >>,
   << <<"x.ts">>, <<"a", "b", "z.ts">> >>,
   << <<"x.ts">>, <<"a", "y.ts">>, <<"a", "b", "z.ts">> >>,
   << <<"x.ts">>, <<"a", "b", "z.ts">>, <<"a", "y.ts">> >>}

InitBuild ==
  /\ phase = "parsing"
  /\ discovered \in DiscoveredLists
  /\ completed = Len(discovered)
  /\ allSymbols \in SymbolLists
  /\ cancelRequested = FALSE
  /\ analysisResult = NoAnalysis
  /\ parserStats = [hits |-> 0, misses |-> 1]
  /\ outcomes = <<>>
  /\ lastParsed = EmptyMap
  /\ runs = 1
  /\ ParserIdle
  /\ CacheIdle
  /\ UpdateIdle
  /\ DepsIdle
  /\ LaterIdle

NextBuild == FinishAnalysis

SpecBuild == InitBuild /\ [][NextBuild]_vars

(***************************************************************************)
(* Properties of the lightweight parser and of the analysis                *)
(***************************************************************************)
\* C32: the graph that build returns has a folder node for every directory above every
\* file, a contains edge from n to c for every id c in the children of a node n, and the
\* target of every contains edge in the children of its source
C32_FoldersAndContainment ==
  analysisResult.returned = "result"
    => LET ns == analysisResult.nodes
           es == analysisResult.edges
       IN /\ \A f \in 1..Len(discovered) :
               \A k \in 1..(Len(discovered[f]) - 1) :
                  /\ pathToId(SubSeq(discovered[f], 1, k)) \in DOMAIN ns
                  /\ ns[pathToId(SubSeq(discovered[f], 1, k))].type = "folder"
          /\ \A n \in DOMAIN ns :
               \A c \in 1..Len(ns[n].children) :
                  Includes(es, ContainsEdge(n, ns[n].children[c]))
          /\ \A e \in 1..Len(es) :
               es[e].type = "contains"
                 => /\ es[e].source \in DOMAIN ns
                    /\ Includes(ns[es[e].source].children, es[e].target)

\* the outcomes of parseFile on the two-line text `export const X = 1` /
\* `export function f() { return 1 }`
ScenarioOutcomes ==
  {i \in 1..Len(outcomes) : ~outcomes[i].threw /\ outcomes[i].text = <<LConstX, LFnRet1>>}

\* C11: parsing the two-line a.ts gives exactly the symbols X and f, and f has
\* linesOfCode 1 and complexity 1
C11_ScenarioTwoSymbolsLocOne ==
  \A i \in ScenarioOutcomes :
     LET symbols == outcomes[i].symbols
     IN /\ Len(symbols) = 2
        /\ symbols[1].name = "X"
        /\ symbols[2].name = "f"
        /\ symbols[2].linesOfCode = 1
        /\ symbols[2].complexity = 1

\* C12: a parseFile of a file whose text is the text its previous parseFile read is a
\* cache hit, counts as one, and returns the symbol list the previous one returned
C12_UnchangedReparseIsHit ==
  \A i \in 1..Len(outcomes) :
     ( /\ ~outcomes[i].threw
       /\ outcomes[i].previous.parsed
       /\ outcomes[i].previous.text = outcomes[i].text )
       => /\ outcomes[i].hit
          /\ outcomes[i].hitsAfter = outcomes[i].hitsBefore + 1
          /\ outcomes[i].symbols = outcomes[i].previous.symbols

\* a second analysis re-parsed the unchanged two-line file and was served from the cache
C12_Witness ==
  \E i \in 1..Len(outcomes) :
     /\ outcomes[i].previous.parsed
     /\ outcomes[i].previous.text = outcomes[i].text
     /\ outcomes[i].text = <<LConstX, LFnRet1>>
     /\ outcomes[i].hit
     /\ Len(outcomes[i].symbols) = 2

\* the symbols of the files that parseFile returned for, in the order of the files
RECURSIVE SymbolsOfParsed(_)
SymbolsOfParsed(outs) ==
  IF Len(outs) = 0 THEN <<>>
  ELSE (IF Head(outs).threw THEN <<>> ELSE Head(outs).symbols) \o SymbolsOfParsed(Tail(outs))

BatchWentOnAfterFailure ==
  /\ Len(batches) = 1
  /\ batches[1].next > Len(batches[1].changes)
  /\ Len(batches[1].changes) = 2
  /\ batches[1].changes[1].type = "created"
  /\ disk[batches[1].changes[1].filePath] = Missing
  /\ batches[1].changes[2].type = "deleted"
  /\ pathToId(batches[1].changes[2].filePath) \in lastStart.nodesBefore

\* C18: when the analysis is cancelled after some files have been parsed, it returns a
\* result, and the graph of the result has the nodes of those files
C18_CancelledAnalysisKeepsWork ==
  (phase = "done" /\ cancelRequested /\ Len(outcomes) > 0)
    => /\ analysisResult.returned = "result"
       /\ \A i \in 1..Len(outcomes) :
             ~outcomes[i].threw => pathToId(outcomes[i].filePath) \in DOMAIN analysisResult.nodes

\* C19: in the result of an analysis, a file whose parse failed has no file node and is
\* named in the error list
C19_FailedFileAbsentAndReported ==
  analysisResult.returned = "result"
    => \A i \in 1..Len(outcomes) :
          outcomes[i].threw
            => /\ pathToId(outcomes[i].filePath) \notin DOMAIN analysisResult.nodes
               /\ \E e \in 1..Len(analysisResult.errors) :
                     analysisResult.errors[e].filePath = outcomes[i].filePath

\* the symbol nodes of the graph that execute returned
ResultSymbolNodes ==
  {id \in DOMAIN analysisResult.nodes :
     analysisResult.nodes[id].type \notin {"root", "folder", "file"}}

\* C23: the graph that build returns has as many symbol nodes as build was given symbols
C23_OneNodePerSymbol ==
  analysisResult.returned = "result"
    => Cardinality(ResultSymbolNodes) = Len(allSymbols)

(***************************************************************************)
(* DependencyAnalyzer (src/unnamed/part_013, second half).  A path is the  *)
(* sequence of the parts of a file name in the analysed folder: a.ts is    *)
(* <<"a", ".ts">>.  A module path is "./" followed by the parts written in *)
(* the import declaration, or the name of an external module.              *)
(***************************************************************************)
MaxFiles == 2      \* most files in one analysis
MaxImports == 2    \* most import declarations in one file

SourceFiles == {<<"a", ".ts">>, <<"b", ".ts">>, <<"a", ".tsx">>, <<"b", ".tsx">>}

ModulePaths ==
  {<<"./", "a">>, <<"./", "b">>, <<"./", "B">>, <<"./", "b", ".ts">>, <<"lodash">>}

FileLists ==
  {fl \in SeqsUpTo(SourceFiles, MaxFiles) :
     Len(fl) >= 1 /\ \A i, j \in 1..Len(fl) : fl[i] = fl[j] => i = j}

ParsedFileLists ==
  UNION {{[i \in 1..Len(fl) |-> [filePath |-> fl[i], imports |-> imports[i]]] :
            imports \in [1..Len(fl) -> SeqsUpTo(ModulePaths, MaxImports)]} : fl \in FileLists}

toLowerCase(part) ==
  CASE part = "A" -> "a"
    [] part = "B" -> "b"
    [] OTHER -> part

normalizePath(filePath) == [i \in 1..Len(filePath) |-> toLowerCase(filePath[i])]

\* the test is on the end of the path only
isKnownFile(filePath) ==
  Len(filePath) > 0 /\ filePath[Len(filePath)] \in {".ts", ".tsx", ".js", ".jsx"}

NoPath == <<>>

Extensions == << <<".ts">>, <<".tsx">>, <<".js">>, <<".jsx">>, <<>> >>

\* the first extension that makes a known file wins; null is NoPath
resolveImportPath(fromFile, importPath) ==
  IF importPath[1] # "./" THEN NoPath
  ELSE LET resolved == Tail(importPath)
           known == {k \in 1..Len(Extensions) : isKnownFile(resolved \o Extensions[k])}
       IN IF known # {}
            THEN normalizePath(resolved \o Extensions[CHOOSE k \in known : \A j \in known : k <= j])
          ELSE normalizePath(resolved \o <<"/index", ".ts">>)

\* the Set of the resolved imports of one file that are analysed files, in insertion order
RECURSIVE resolveImports(_, _, _, _)
resolveImports(file, fileSet, i, dependencies) ==
  IF i > Len(file.imports) THEN dependencies
  ELSE LET resolvedPath == resolveImportPath(file.filePath, file.imports[i])
       IN resolveImports(file, fileSet, i + 1,
            IF resolvedPath # NoPath /\ resolvedPath \in fileSet /\ ~Includes(dependencies, resolvedPath)
              THEN Append(dependencies, resolvedPath)
              ELSE dependencies)

\* the Map normalized path -> Set of dependencies, as the sequence of its entries
buildDependencyGraph(parsed) ==
  LET fileSet == {normalizePath(parsed[i].filePath) : i \in 1..Len(parsed)}
  IN [i \in 1..Len(parsed) |->
        [key |-> normalizePath(parsed[i].filePath),
         dependencies |-> resolveImports(parsed[i], fileSet, 1, <<>>)]]

KeyIndex(entries, key) ==
  IF \E i \in 1..Len(entries) : entries[i].key = key
    THEN CHOOSE i \in 1..Len(entries) : entries[i].key = key
    ELSE 0

RECURSIVE countAfferent(_, _, _, _)
countAfferent(metrics, filePath, dependencies, j) ==
  IF j > Len(dependencies) THEN metrics
  ELSE LET d == KeyIndex(metrics, dependencies[j])
       IN countAfferent(
            IF d = 0 THEN metrics
            ELSE [metrics EXCEPT ![d].afferentCoupling = @ + 1,
                                 ![d].dependedOnBy = Append(@, filePath)],
            filePath, dependencies, j + 1)

RECURSIVE countCouplings(_, _, _)
countCouplings(metrics, dependencyGraph, i) ==
  IF i > Len(dependencyGraph) THEN metrics
  ELSE LET filePath == dependencyGraph[i].key
           dependencies == dependencyGraph[i].dependencies
           k == KeyIndex(metrics, filePath)
       IN countCouplings(
            IF k = 0 THEN metrics
            ELSE countAfferent([metrics EXCEPT ![k].efferentCoupling = Len(dependencies),
                                               ![k].dependsOn = dependencies],
                               filePath, dependencies, 1),
            dependencyGraph, i + 1)

\* a quotient is kept as its numerator and denominator
Quotient(num, den) == [num |-> num, den |-> den]

InitialMetrics(parsed) ==
  [i \in 1..Len(parsed) |->
     [key |-> normalizePath(parsed[i].filePath), filePath |-> parsed[i].filePath,
      afferentCoupling |-> 0, efferentCoupling |-> 0, instability |-> Quotient(0, 1),
      dependsOn |-> <<>>, dependedOnBy |-> <<>>]]

\* instability computed from the incoming dependencies
calculateCouplingMetrics_AfferentShare(dependencyGraph, parsed) ==
  LET counted == countCouplings(InitialMetrics(parsed), dependencyGraph, 1)
  IN [i \in 1..Len(counted) |->
        LET total == counted[i].afferentCoupling + counted[i].efferentCoupling
        IN [counted[i] EXCEPT !.instability =
              IF total > 0 THEN Quotient(counted[i].afferentCoupling, total) ELSE Quotient(0, 1)]]

calculateCouplingMetrics(dependencyGraph, parsed) ==
  LET counted == countCouplings(InitialMetrics(parsed), dependencyGraph, 1)
  IN [i \in 1..Len(counted) |->
        LET total == counted[i].afferentCoupling + counted[i].efferentCoupling
        IN [counted[i] EXCEPT !.instability =
              IF total > 0 THEN Quotient(counted[i].efferentCoupling, total) ELSE Quotient(0, 1)]]

isCycleAlreadyFound(cycles, newCycle) ==
  \E c \in 1..Len(cycles) :
     /\ cycles[c].length = Len(newCycle)
     /\ \A n \in 1..Len(newCycle) : Includes(cycles[c].cycle, newCycle[n])

dependenciesOf(dependencyGraph, node) ==
  IF KeyIndex(dependencyGraph, node) = 0 THEN <<>>
  ELSE dependencyGraph[KeyIndex(dependencyGraph, node)].dependencies

\* dfs(node) and its for loop over the dependencies of the node, from the j-th on; search
\* holds cycles, visited, recursionStack and path
RECURSIVE dfs(_, _, _)
RECURSIVE visitDependencies(_, _, _, _)
\* visitDependencies that goes by the recursion stack alone: a dependency off the stack is
\* entered again, and a cycle is pushed without the test for a cycle already found
visitDependencies_StackOnly(dependencyGraph, dependencies, j, search) ==
  IF j > Len(dependencies) THEN search
  ELSE LET dep == dependencies[j]
           cycleStartIndex == IndexOf(search.path, dep)
           cycle == SubSeq(search.path, cycleStartIndex, Len(search.path))
       IN visitDependencies(dependencyGraph, dependencies, j + 1,
            IF dep \notin search.recursionStack
              THEN dfs(dependencyGraph, dep, search)
            ELSE IF cycleStartIndex # 0
              THEN [search EXCEPT !.cycles = Append(@, [cycle |-> cycle, length |-> Len(cycle)])]
            ELSE search)

\* visitDependencies that reports the whole path instead of its part from the dependency on
visitDependencies_WholePath(dependencyGraph, dependencies, j, search) ==
  IF j > Len(dependencies) THEN search
  ELSE LET dep == dependencies[j]
           cycleStartIndex == IndexOf(search.path, dep)
           cycle == search.path
       IN visitDependencies(dependencyGraph, dependencies, j + 1,
            IF dep \notin search.visited
              THEN dfs(dependencyGraph, dep, search)
            ELSE IF /\ dep \in search.recursionStack
                    /\ cycleStartIndex # 0
                    /\ ~isCycleAlreadyFound(search.cycles, cycle)
              THEN [search EXCEPT !.cycles = Append(@, [cycle |-> cycle, length |-> Len(cycle)])]
            ELSE search)

dfs(dependencyGraph, node, search) ==
  LET entered == [search EXCEPT !.visited = @ \cup {node},
                                !.recursionStack = @ \cup {node},
                                !.path = Append(@, node)]
      left == visitDependencies(dependencyGraph, dependenciesOf(dependencyGraph, node), 1, entered)
  IN [left EXCEPT !.path = SubSeq(@, 1, Len(@) - 1), !.recursionStack = @ \ {node}]

visitDependencies(dependencyGraph, dependencies, j, search) ==
  IF j > Len(dependencies) THEN search
  ELSE LET dep == dependencies[j]
           cycleStartIndex == IndexOf(search.path, dep)
           cycle == SubSeq(search.path, cycleStartIndex, Len(search.path))
       IN visitDependencies(dependencyGraph, dependencies, j + 1,
            IF dep \notin search.visited
              THEN dfs(dependencyGraph, dep, search)
            ELSE IF /\ dep \in search.recursionStack
                    /\ cycleStartIndex # 0
                    /\ ~isCycleAlreadyFound(search.cycles, cycle)
              THEN [search EXCEPT !.cycles = Append(@, [cycle |-> cycle, length |-> Len(cycle)])]
            ELSE search)

RECURSIVE dfsFromEach(_, _, _)
dfsFromEach(dependencyGraph, i, search) ==
  IF i > Len(dependencyGraph) THEN search
  ELSE dfsFromEach(dependencyGraph, i + 1,
         IF dependencyGraph[i].key \notin search.visited
           THEN dfs(dependencyGraph, dependencyGraph[i].key, search)
           ELSE search)

detectCircularDependencies(dependencyGraph) ==
  dfsFromEach(dependencyGraph, 1,
              [cycles |-> <<>>, visited |-> {}, recursionStack |-> {}, path |-> <<>>]).cycles

analyze(parsed) ==
  LET dependencyGraph == buildDependencyGraph(parsed)
      circularDependencies == detectCircularDependencies(dependencyGraph)
  IN [analyzed |-> TRUE,
      fileMetrics |-> calculateCouplingMetrics(dependencyGraph, parsed),
      circularDependencies |-> circularDependencies,
      totalCircularDependencies |-> Len(circularDependencies)]

InitDeps ==
  /\ parsedFiles \in ParsedFileLists
  /\ dependencyResult = NoDependencyResult
  /\ ParserIdle
  /\ CacheIdle
  /\ UpdateIdle
  /\ AnalyzeIdle
  /\ LaterIdle

Analyze ==
  /\ dependencyResult' = analyze(parsedFiles)
  /\ UNCHANGED <<parsedFiles, parserVars, cacheVars, updateVars, analyzeVars, laterVars>>

NextDeps == Analyze

SpecDeps == InitDeps /\ [][NextDeps]_vars

(***************************************************************************)
(* SpecCycles: the dependency analysis of up to three files a.ts, b.ts and *)
(* c.ts that import one another, in every order of the files and of the   *)
(* import declarations.                                                    *)
(***************************************************************************)
CycleFiles == {<<"a", ".ts">>, <<"b", ".ts">>, <<"c", ".ts">>}

CycleModulePaths == {<<"./", "a">>, <<"./", "b">>, <<"./", "c">>}

CycleFileLists ==
  {fl \in SeqsUpTo(CycleFiles, 3) :
     Len(fl) >= 1 /\ \A i, j \in 1..Len(fl) : fl[i] = fl[j] => i = j}

InitCycles ==
  /\ \E fl \in CycleFileLists :
       \E imports \in [1..Len(fl) -> SeqsUpTo(CycleModulePaths, MaxImports)] :
          parsedFiles = [i \in 1..Len(fl) |-> [filePath |-> fl[i], imports |-> imports[i]]]
  /\ dependencyResult = NoDependencyResult
  /\ ParserIdle
  /\ CacheIdle
  /\ UpdateIdle
  /\ AnalyzeIdle
  /\ LaterIdle

SpecCycles == InitCycles /\ [][NextDeps]_vars

(***************************************************************************)
(* Properties of the dependency analysis                                   *)
(***************************************************************************)
\* the two analysed files import each other, each by one extension-less relative import
\* of the other's name, and import nothing else
TwoFilesImportEachOther ==
  /\ Len(parsedFiles) = 2
  /\ parsedFiles[1].filePath[1] # parsedFiles[2].filePath[1]
  /\ parsedFiles[1].imports = << <<"./", parsedFiles[2].filePath[1]>> >>
  /\ parsedFiles[2].imports = << <<"./", parsedFiles[1].filePath[1]>> >>

\* C15: for two files that import each other and nothing else, analyze reports exactly one
\* circular dependency, of length 2, in either order of the two files
C15_TwoCycleReportedOnce ==
  (dependencyResult.analyzed /\ TwoFilesImportEachOther)
    => /\ dependencyResult.totalCircularDependencies = 1
       /\ Len(dependencyResult.circularDependencies) = 1
       /\ dependencyResult.circularDependencies[1].length = 2

\* the files that file i imports and the files that import file j, in the import graph
\* that resolveImportPath gives over the analysed files
DependsOn(i) ==
  {j \in 1..Len(parsedFiles) :
     \E k \in 1..Len(parsedFiles[i].imports) :
        resolveImportPath(parsedFiles[i].filePath, parsedFiles[i].imports[k])
          = normalizePath(parsedFiles[j].filePath)}

DependedOnBy(j) == {i \in 1..Len(parsedFiles) : j \in DependsOn(i)}

MetricsOf(i) ==
  dependencyResult.fileMetrics[KeyIndex(dependencyResult.fileMetrics,
                                        normalizePath(parsedFiles[i].filePath))]

\* C16: per analysed file, the efferent coupling is the out-degree and the afferent coupling
\* the in-degree of the file in the resolved import graph; the instability is Ce / (Ca + Ce),
\* is 0 when both are 0, and lies between 0 and 1
C16_CouplingsAreDegrees ==
  dependencyResult.analyzed
    => \A i \in 1..Len(parsedFiles) :
          LET m == MetricsOf(i)
              Ce == Cardinality(DependsOn(i))
              Ca == Cardinality(DependedOnBy(i))
          IN /\ m.efferentCoupling = Ce
             /\ m.afferentCoupling = Ca
             /\ Ca + Ce = 0 => m.instability.num = 0
             /\ Ca + Ce > 0 => m.instability.num * (Ca + Ce) = Ce * m.instability.den
             /\ m.instability.den > 0
             /\ 0 <= m.instability.num
             /\ m.instability.num <= m.instability.den

\* a file that imports itself and the other file: Ce = 2, Ca = 1, instability 2/3
C16_Witness ==
  /\ dependencyResult.analyzed
  /\ \E i \in 1..Len(parsedFiles) :
        /\ MetricsOf(i).efferentCoupling = 2
        /\ MetricsOf(i).afferentCoupling = 1
        /\ MetricsOf(i).instability = Quotient(2, 3)

\* the files `<spec>.ts`, `<spec>.tsx`, `<spec>.js`, `<spec>.jsx` and `<spec>/index.*` of a
\* relative specifier without extension
CandidatesOf(importPath) ==
  {Tail(importPath) \o <<ext>> : ext \in {".ts", ".tsx", ".js", ".jsx"}}
    \cup {Tail(importPath) \o <<"/index", ext>> : ext \in {".ts", ".tsx", ".js", ".jsx"}}

AnalysedFiles == {parsedFiles[i].filePath : i \in 1..Len(parsedFiles)}

IsRelativeSpecifier(importPath) == Len(importPath) = 2 /\ importPath[1] = "./"

\* C29: a relative import of an analysed file gives an edge from the file to an analysed
\* file whenever one of `<spec>.ts`, `<spec>.tsx`, `<spec>.js`, `<spec>.jsx` and
\* `<spec>/index.*` is analysed
C29_RelativeImportGivesEdge ==
  dependencyResult.analyzed
    => \A i \in 1..Len(parsedFiles) :
          \A k \in 1..Len(parsedFiles[i].imports) :
             LET importPath == parsedFiles[i].imports[k]
                 dependencies == buildDependencyGraph(parsedFiles)[i].dependencies
             IN (IsRelativeSpecifier(importPath)
                   /\ CandidatesOf(importPath) \cap AnalysedFiles # {})
                  => /\ \E d \in 1..Len(dependencies) :
                          \E f \in CandidatesOf(importPath) \cap AnalysedFiles :
                             dependencies[d] = normalizePath(f)
                     /\ MetricsOf(i).efferentCoupling >= 1

NodeSet(cycle) == {cycle[n] : n \in 1..Len(cycle)}

\* the import edges of the dependency graph that analyze builds
DependencyGraph == buildDependencyGraph(parsedFiles)

ImportEdge(from, to) == Includes(dependenciesOf(DependencyGraph, from), to)

\* the files reached from the files of `found` along at most n more import edges
RECURSIVE ReachedIn(_, _)
ReachedIn(found, n) ==
  IF n = 0 THEN found
  ELSE ReachedIn(found \cup {DependencyGraph[i].key : i \in
                               {i \in 1..Len(DependencyGraph) :
                                  \E from \in found : ImportEdge(from, DependencyGraph[i].key)}},
                 n - 1)

\* a file from which a path of import edges leads back to the file
OnDirectedCycle(node) ==
  \E next \in {DependencyGraph[i].key : i \in 1..Len(DependencyGraph)} :
     /\ ImportEdge(node, next)
     /\ node \in ReachedIn({next}, Len(DependencyGraph))

ClosedPath(cycle) ==
  /\ Len(cycle) >= 1
  /\ \A n \in 1..(Len(cycle) - 1) : ImportEdge(cycle[n], cycle[n + 1])
  /\ ImportEdge(cycle[Len(cycle)], cycle[1])

\* C40: every circular dependency reported is a closed path of import edges of the
\* dependency graph, and one is reported exactly when the graph has a directed cycle
C40_CyclesAreClosedPathsAndFound ==
  dependencyResult.analyzed
    => /\ \A c \in 1..Len(dependencyResult.circularDependencies) :
            /\ ClosedPath(dependencyResult.circularDependencies[c].cycle)
            /\ dependencyResult.circularDependencies[c].length
                 = Len(dependencyResult.circularDependencies[c].cycle)
       /\ (Len(dependencyResult.circularDependencies) > 0)
            <=> (\E i \in 1..Len(DependencyGraph) : OnDirectedCycle(DependencyGraph[i].key))

\* a imports b, b imports c and c imports b: the cycle b c is found behind a, which is on no
\* cycle, and it is the only one reported
C40_Witness ==
  /\ dependencyResult.analyzed
  /\ Len(parsedFiles) = 3
  /\ ~OnDirectedCycle(DependencyGraph[1].key)
  /\ Len(dependencyResult.circularDependencies) = 1
  /\ dependencyResult.circularDependencies[1].length = 2
  /\ DependencyGraph[1].key \notin NodeSet(dependencyResult.circularDependencies[1].cycle)


\* C36: no two of the circular dependencies reported have the same set of files, in whatever
\* order the files are analysed and their imports declared
C36_NoTwoCyclesOnSameFiles ==
  dependencyResult.analyzed
    => \A c, d \in 1..Len(dependencyResult.circularDependencies) :
          NodeSet(dependencyResult.circularDependencies[c].cycle)
             = NodeSet(dependencyResult.circularDependencies[d].cycle) => c = d

\* each of a.ts, b.ts and c.ts imports the two others, so the three files lie on two closed
\* paths, a b c and a c b; one circular dependency over the three files is reported
C36_Witness ==
  /\ dependencyResult.analyzed
  /\ Len(parsedFiles) = 3
  /\ \A i \in 1..3 : Cardinality(DependsOn(i) \ {i}) = 2
  /\ Cardinality({c \in 1..Len(dependencyResult.circularDependencies) :
                    dependencyResult.circularDependencies[c].length = 3}) = 1

(***************************************************************************)
(* SpecResolver: FindImplementationsCommand (src/commands/                 *)
(* visualizationDemo.ts) with its TypeAnalyzer, and the file watcher of    *)
(* extension.ts that invalidates it.  A step is a stretch of code between  *)
(* two awaits that wait for I/O: discovery.discover() is the only such     *)
(* await of a query; TypeAnalyzer.initialize and findImplementations have  *)
(* no await of their own and run to their end once they are called.        *)
(* fileSetVersion counts the changes of the workspace files; an analyzer   *)
(* records the count at which it was created and the count its file list   *)
(* was discovered at.                                                      *)
(***************************************************************************)
MaxChanges == 2    \* most changes of the workspace files in one behaviour
MaxQueries == 3    \* most findImplementations calls in one behaviour

InitResolver ==
  /\ LaterIdle
  /\ ParserIdle
  /\ CacheIdle
  /\ UpdateIdle
  /\ AnalyzeIdle
  /\ DepsIdle

ResolverFrame == UNCHANGED <<parserVars, cacheVars, updateVars, analyzeVars, depsVars, overlayVars, pureVars>>

\* the analyze command has returned a result: updateContext(true)
RunAnalysis ==
  /\ ~hasAnalysis
  /\ hasAnalysis' = TRUE
  /\ UNCHANGED <<fileSetVersion, typeAnalyzer, isInitialized, disposed, inFlight, lastAnswer,
                 queryCount>>
  /\ ResolverFrame

\* the fields after invalidate(): the analyzer, if there is one, is disposed and dropped
invalidated ==
  [typeAnalyzer |-> NoAnalyzer,
   isInitialized |-> FALSE,
   disposed |-> IF typeAnalyzer # NoAnalyzer THEN disposed \cup {typeAnalyzer.id} ELSE disposed]

\* fileWatcher.onDidChange / onDidCreate / onDidDelete: the body runs only with an analysis
watcherInvalidates(analysed) == analysed

\* a file of the workspace is changed, created or deleted, and the watcher is notified
FileSetChange ==
  /\ fileSetVersion < MaxChanges
  /\ fileSetVersion' = fileSetVersion + 1
  /\ IF watcherInvalidates(hasAnalysis)
       THEN /\ typeAnalyzer' = invalidated.typeAnalyzer
            /\ isInitialized' = invalidated.isInitialized
            /\ disposed' = invalidated.disposed
       ELSE UNCHANGED <<typeAnalyzer, isInitialized, disposed>>
  /\ UNCHANGED <<hasAnalysis, inFlight, lastAnswer, queryCount>>
  /\ ResolverFrame

\* the query is answered by this.typeAnalyzer; with null the error message is shown
answerOf(issued, analyzer) ==
  IF analyzer = NoAnalyzer THEN lastAnswer
  ELSE [answered |-> TRUE, issued |-> issued, analyzer |-> analyzer,
        wasDisposed |-> analyzer.id \in disposed]

\* findImplementations is called: with isInitialized it runs to its end, otherwise it
\* enters initializeAnalyzer and waits for discovery.discover()
StartQuery ==
  /\ queryCount < MaxQueries
  /\ queryCount' = queryCount + 1
  /\ IF isInitialized
       THEN /\ lastAnswer' = answerOf(fileSetVersion, typeAnalyzer)
            /\ UNCHANGED inFlight
       ELSE /\ inFlight' = Append(inFlight, [id |-> queryCount + 1, issued |-> fileSetVersion])
            /\ UNCHANGED lastAnswer
  /\ UNCHANGED <<fileSetVersion, hasAnalysis, typeAnalyzer, isInitialized, disposed>>
  /\ ResolverFrame

\* discovery.discover() of one query returns the files it found at some time since the
\* query began; a new TypeAnalyzer is made and initialised with them, and the query is
\* answered by it
DiscoveryReturns ==
  /\ \E q \in 1..Len(inFlight) :
       \E scanned \in inFlight[q].issued..fileSetVersion :
          LET analyzer == [id |-> inFlight[q].id, created |-> fileSetVersion, files |-> scanned]
          IN /\ typeAnalyzer' = analyzer
             /\ isInitialized' = TRUE
             /\ lastAnswer' = answerOf(inFlight[q].issued, analyzer)
             /\ inFlight' = SubSeq(inFlight, 1, q - 1) \o SubSeq(inFlight, q + 1, Len(inFlight))
  /\ UNCHANGED <<fileSetVersion, hasAnalysis, disposed, queryCount>>
  /\ ResolverFrame

NextResolver == RunAnalysis \/ FileSetChange \/ StartQuery \/ DiscoveryReturns

SpecResolver == InitResolver /\ [][NextResolver]_vars

(***************************************************************************)
(* Properties of the deep type resolver                                    *)
(***************************************************************************)
\* C24: a query issued after a change of the file set is answered by an analyzer that was
\* created after that change and that is not disposed
C24_AnsweredByFreshAnalyzer ==
  lastAnswer.answered
    => /\ lastAnswer.analyzer.created >= lastAnswer.issued
       /\ ~lastAnswer.wasDisposed

(***************************************************************************)
(* SpecMetrics: MetricsCollector (src/analysis/metricsCollector.ts).       *)
(* A syntax tree is a sequence of nodes, each with its kind and the index  *)
(* of its parent (0 for the node handed to collectNodeMetrics); the        *)
(* children of a node are visited in the order of their indices.           *)
(***************************************************************************)
MaxNodes == 3      \* most nodes of a syntax tree

\* the syntax kinds visitNode tells apart: "loop" is any of for, for-in, for-of, while and
\* do, "arrow" an arrow function or function expression, "function" a function
\* declaration, "elseIf" an if statement that is the else branch of its parent, "and" and
\* "or" a binary expression with && or ||, "other" any other node
SyntaxKinds == {"other", "if", "elseIf", "loop", "try", "catch", "switch", "case",
                "conditional", "and", "or", "arrow", "function", "call", "return", "throw"}

\* what the parser hands over: a function declaration, an arrow function or function
\* expression, or a method
RootKinds == {"function", "arrow", "other"}

IfKinds == {"if", "elseIf"}

\* an if statement has one else branch at most, and only an if statement has one
WellFormed(tree) ==
  /\ tree[1].kind \in RootKinds
  /\ \A i \in 2..Len(tree) :
       /\ tree[i].kind = "elseIf" => tree[tree[i].parent].kind \in IfKinds
       /\ tree[i].kind = "elseIf"
            => \A j \in 2..Len(tree) : j # i /\ tree[j].parent = tree[i].parent
                                          => tree[j].kind # "elseIf"

ParentMaps(n) ==
  {p \in [1..n -> 0..(n - 1)] : p[1] = 0 /\ \A i \in 2..n : p[i] \in 1..(i - 1)}

SyntaxTree(k, p) == [i \in DOMAIN k |-> [kind |-> k[i], parent |-> p[i]]]

childrenOf(tree, i) == SelectSeq([j \in 1..Len(tree) |-> j], LAMBDA j : tree[j].parent = i)

isFunctionLike(tree, i) == tree[i].kind \in {"arrow", "function"}

\* isCallbackFunction: an arrow function or function expression that is an argument of a
\* call, directly or through its parent
isCallbackFunction(tree, i) ==
  /\ tree[i].kind = "arrow"
  /\ tree[i].parent # 0
  /\ \/ tree[tree[i].parent].kind = "call"
     \/ /\ tree[tree[i].parent].parent # 0
        /\ tree[tree[tree[i].parent].parent].kind = "call"

InitialState ==
  [cyclomaticComplexity |-> 1, cognitiveComplexity |-> 0, currentNestingDepth |-> 0,
   maxNestingDepth |-> 0, cognitiveNestingLevel |-> 0, returnCount |-> 0, throwCount |-> 0,
   currentCallbackDepth |-> 0, maxCallbackDepth |-> 0, insideNestedFunction |-> FALSE]

\* the callback depth on entering a node
enterCallback(state, isCallback) ==
  IF isCallback
    THEN [state EXCEPT !.currentCallbackDepth = @ + 1,
                       !.maxCallbackDepth = Max(@, state.currentCallbackDepth + 1)]
    ELSE state

CyclomaticKinds == {"if", "elseIf", "loop", "case", "catch", "conditional", "and", "or"}

\* the first switch of visitNode
countCyclomatic(state, kind) ==
  IF kind \in CyclomaticKinds THEN [state EXCEPT !.cyclomaticComplexity = @ + 1] ELSE state

CognitiveNestingKinds == {"if", "elseIf", "loop", "catch", "switch"}

\* the second switch of visitNode; a && or || counts unless its parent is a binary
\* expression with the same operator
countCognitive(state, tree, i) ==
  LET kind == tree[i].kind
      parentKind == IF tree[i].parent = 0 THEN "other" ELSE tree[tree[i].parent].kind
  IN IF kind = "elseIf" THEN [state EXCEPT !.cognitiveComplexity = @ + 1]
     ELSE IF kind \in {"if", "loop", "catch", "switch", "conditional"}
       THEN [state EXCEPT !.cognitiveComplexity = @ + 1 + state.cognitiveNestingLevel]
     ELSE IF kind \in {"and", "or"} /\ parentKind # kind
       THEN [state EXCEPT !.cognitiveComplexity = @ + 1]
     ELSE state

NestingKinds == {"if", "elseIf", "loop", "try", "switch", "arrow"}

countNesting(state, kind) ==
  IF kind \in NestingKinds
    THEN [state EXCEPT !.currentNestingDepth = @ + 1,
                       !.maxNestingDepth = Max(@, state.currentNestingDepth + 1)]
    ELSE state

countControlFlow(state, kind) ==
  IF state.insideNestedFunction THEN state
  ELSE IF kind = "return" THEN [state EXCEPT !.returnCount = @ + 1]
  ELSE IF kind = "throw" THEN [state EXCEPT !.throwCount = @ + 1]
  ELSE state

enterCognitive(state, kind) ==
  IF kind \in CognitiveNestingKinds
    THEN [state EXCEPT !.cognitiveNestingLevel = @ + 1] ELSE state

\* a visit that leaves the nesting depth as it is after the children
restore_KeepDepth(state, kind, isCallback) ==
  LET cognitive == IF kind \in CognitiveNestingKinds
                     THEN [state EXCEPT !.cognitiveNestingLevel = @ - 1] ELSE state
  IN IF isCallback THEN [cognitive EXCEPT !.currentCallbackDepth = @ - 1] ELSE cognitive

\* the end of visitNode: the counters that were increased are decreased
restore(state, kind, isCallback) ==
  LET nesting == IF kind \in NestingKinds
                   THEN [state EXCEPT !.currentNestingDepth = @ - 1] ELSE state
      cognitive == IF kind \in CognitiveNestingKinds
                     THEN [nesting EXCEPT !.cognitiveNestingLevel = @ - 1] ELSE nesting
  IN IF isCallback THEN [cognitive EXCEPT !.currentCallbackDepth = @ - 1] ELSE cognitive

RECURSIVE visitNode(_, _, _, _)
RECURSIVE visitChildren(_, _, _)
\* ts.forEachChild(node, child => this.visitNode(child, state, false))
visitChildren(tree, children, state) ==
  IF Len(children) = 0 THEN state
  ELSE visitChildren(tree, Tail(children), visitNode(tree, Head(children), state, FALSE))

\* visitNode(node, state, isTopLevel)
visitNode(tree, i, state, isTopLevel) ==
  LET isCallback == isCallbackFunction(tree, i)
      entered == enterCallback(state, isCallback)
      isNestedFunction == ~isTopLevel /\ isFunctionLike(tree, i)
      kind == tree[i].kind
  IN IF isNestedFunction /\ ~isCallback
       THEN LET inside == [entered EXCEPT !.insideNestedFunction = TRUE,
                                          !.cognitiveNestingLevel = @ + 1]
                visited == visitChildren(tree, childrenOf(tree, i), inside)
            IN [visited EXCEPT !.insideNestedFunction = entered.insideNestedFunction,
                               !.cognitiveNestingLevel = @ - 1]
       ELSE LET counted == countControlFlow(countNesting(countCognitive(
                             countCyclomatic(entered, kind), tree, i), kind), kind)
                visited == visitChildren(tree, childrenOf(tree, i), enterCognitive(counted, kind))
            IN restore(visited, kind, isCallback)

\* collectNodeMetrics(node); the tree has no promise chain
collectNodeMetrics(state) ==
  [collected |-> TRUE,
   cyclomaticComplexity |-> state.cyclomaticComplexity,
   cognitiveComplexity |-> state.cognitiveComplexity,
   maxNestingDepth |-> state.maxNestingDepth,
   returnCount |-> state.returnCount,
   throwCount |-> state.throwCount,
   callbackDepth |-> state.maxCallbackDepth,
   promiseChainLength |-> 0]

InitMetrics ==
  /\ \E n \in 1..MaxNodes :
       \E p \in ParentMaps(n), k \in [1..n -> SyntaxKinds] :
          /\ WellFormed(SyntaxTree(k, p))
          /\ ast = SyntaxTree(k, p)
  /\ nodeMetrics = NoMetrics
  /\ traversal = NoMetrics
  /\ ParserIdle
  /\ CacheIdle
  /\ UpdateIdle
  /\ AnalyzeIdle
  /\ DepsIdle
  /\ ResolverIdle
  /\ OverlayIdle
  /\ ClassifyIdle
  /\ ProjectIdle

\* the parser collects the metrics of the function
CollectNodeMetrics ==
  /\ nodeMetrics = NoMetrics
  /\ LET state == visitNode(ast, 1, InitialState, FALSE)
     IN /\ traversal' = state
        /\ nodeMetrics' = collectNodeMetrics(state)
  /\ UNCHANGED <<ast, parserVars, cacheVars, updateVars, analyzeVars, depsVars, resolverVars,
                 overlayVars, classifyVars, projectVars>>

NextMetrics == CollectNodeMetrics

SpecMetrics == InitMetrics /\ [][NextMetrics]_vars

\* C27: for every function the cyclomatic complexity is at least 1, the cognitive
\* complexity and the maximum nesting depth are at least 0, and at the end of the
\* traversal the nesting counters have the values they started with
C27_MetricBoundsAndCountersRestored ==
  nodeMetrics.collected
    => /\ nodeMetrics.cyclomaticComplexity >= 1
       /\ nodeMetrics.cognitiveComplexity >= 0
       /\ nodeMetrics.maxNestingDepth >= 0
       /\ traversal.currentNestingDepth = InitialState.currentNestingDepth
       /\ traversal.cognitiveNestingLevel = InitialState.cognitiveNestingLevel
       /\ traversal.currentCallbackDepth = InitialState.currentCallbackDepth
       /\ traversal.insideNestedFunction = InitialState.insideNestedFunction

\* the metrics of a function with a loop in an if statement: the nesting went up to 2 and
\* is back at 0
C27_Witness ==
  /\ nodeMetrics.collected
  /\ Len(ast) = 3
  /\ ast[1].kind = "function" /\ ast[2].kind = "if"
  /\ ast[3].kind = "loop" /\ ast[3].parent = 2
  /\ nodeMetrics.maxNestingDepth = 2
  /\ nodeMetrics.cyclomaticComplexity = 3
  /\ nodeMetrics.cognitiveComplexity > 0
  /\ traversal.currentNestingDepth = 0
  /\ traversal.cognitiveNestingLevel = 0

\* the nodes from node i up to the node below the root
RECURSIVE PathToRoot(_, _)
PathToRoot(tree, i) ==
  IF i = 1 \/ i = 0 THEN {} ELSE {i} \cup PathToRoot(tree, tree[i].parent)

\* node i belongs to the body of the root itself: no function between it and the root is a
\* nested function that is not a callback
InOwnBody(tree, i) ==
  /\ i # 1
  /\ \A j \in PathToRoot(tree, tree[i].parent) :
       isFunctionLike(tree, j) => isCallbackFunction(tree, j)

OwnStatements(tree, kind) ==
  Cardinality({i \in 1..Len(tree) : tree[i].kind = kind /\ InOwnBody(tree, i)})

\* C31: the return count and the throw count of a function, method or arrow function are
\* the numbers of return and throw statements of its own body, the bodies of nested
\* functions that are not callbacks left out
C31_ReturnAndThrowCountsOfOwnBody ==
  nodeMetrics.collected
    => /\ nodeMetrics.returnCount = OwnStatements(ast, "return")
       /\ nodeMetrics.throwCount = OwnStatements(ast, "throw")

(***************************************************************************)
(* SpecClassify: LightweightParser.detectReactHookOrComponent              *)
(* (src/analysis/lightweightParser.ts). A name is a sequence of            *)
(* characters.                                                             *)
(***************************************************************************)
MaxNameLen == 4    \* longest name, in characters

\* the characters of the names: lower-case and upper-case letters, the underscore, a digit
NameChars == {"u", "s", "e", "C", "_", "1"}

UpperAZ == {"A", "B", "C", "D", "E", "F", "G", "H", "I", "J", "K", "L", "M", "N", "O", "P",
            "Q", "R", "S", "T", "U", "V", "W", "X", "Y", "Z"}

\* String.prototype.toUpperCase on one character: a lower-case letter becomes its upper-case
\* letter, every other character stays
toUpperCase1(c) ==
  CASE c = "u" -> "U"
    [] c = "s" -> "S"
    [] c = "e" -> "E"
    [] OTHER -> c

\* name.startsWith('use')
startsWithUse(name) == Len(name) >= 3 /\ SubSeq(name, 1, 3) = <<"u", "s", "e">>

\* detectReactHookOrComponent(name, isTsx)
detectReactHookOrComponent(name, tsx) ==
  IF startsWithUse(name) /\ Len(name) > 3 /\ name[4] = toUpperCase1(name[4]) THEN "hook"
  ELSE IF tsx /\ name[1] = toUpperCase1(name[1]) /\ name[1] \in UpperAZ THEN "component"
  ELSE "function"

\* the names are identifiers: they do not begin with a digit
InitClassify ==
  /\ \E n \in 1..MaxNameLen : symbolName \in {name \in [1..n -> NameChars] : name[1] # "1"}
  /\ isTsx \in BOOLEAN
  /\ symbolKind = "none"
  /\ ParserIdle
  /\ CacheIdle
  /\ UpdateIdle
  /\ AnalyzeIdle
  /\ DepsIdle
  /\ ResolverIdle
  /\ OverlayIdle
  /\ MetricsIdle
  /\ ProjectIdle

\* the parser classifies the function declaration or function-valued variable
DetectKind ==
  /\ symbolKind = "none"
  /\ symbolKind' = detectReactHookOrComponent(symbolName, isTsx)
  /\ UNCHANGED <<symbolName, isTsx, parserVars, cacheVars, updateVars, analyzeVars, depsVars,
                 resolverVars, overlayVars, metricsVars, projectVars>>

NextClassify == DetectKind

SpecClassify == InitClassify /\ [][NextClassify]_vars

\* the name is `use` followed by an upper-case letter A-Z
MatchesUseUpper(name) == startsWithUse(name) /\ Len(name) > 3 /\ name[4] \in UpperAZ

\* C28: a function-like symbol is a hook exactly when its name is `use` followed by an
\* upper-case letter A-Z; otherwise it is a component exactly when its name begins with an
\* upper-case letter and its file is a TSX file; otherwise it is a function
C28_HookComponentOrFunction ==
  symbolKind # "none"
    => /\ symbolKind = "hook" <=> MatchesUseUpper(symbolName)
       /\ symbolKind = "component"
            <=> ~MatchesUseUpper(symbolName) /\ isTsx /\ symbolName[1] \in UpperAZ
       /\ symbolKind \in {"hook", "component", "function"}

(***************************************************************************)
(* SpecProject: ProjectAnalyzer.findUnusedExports (project analysis of     *)
(* src/unnamed/part_013). Paths are sequences of parts as in SpecDeps: the *)
(* name, `.test` for a test file, the extension.                           *)
(***************************************************************************)
MaxExports == 2    \* most exports of the imported file

ExportNames == {"X", "Y"}

\* what the importing file a.ts can import: from './b', from './b.tsx' or from a package
ImportInfos ==
  [modulePath : {<<"./", "b">>, <<"./", "b", ".tsx">>, <<"lodash">>},
   namedImports : SUBSET {"X"},
   defaultImport : BOOLEAN,
   namespaceImport : BOOLEAN]

ExportInfos == [name : ExportNames, isDefault : BOOLEAN, isReExport : BOOLEAN]

\* the file that is imported: b.ts, b.tsx or the test file b.test.ts
TargetPaths == {<<"b", ".ts">>, <<"b", ".tsx">>, <<"b", ".test", ".ts">>}

\* isTestFile: the patterns .test.[jt]sx and .spec.[jt]sx at the end of the path
isTestFile(filePath) ==
  /\ Len(filePath) >= 2
  /\ filePath[Len(filePath) - 1] \in {".test", ".spec"}
  /\ filePath[Len(filePath)] \in {".ts", ".tsx", ".js", ".jsx"}

\* ProjectAnalyzer.resolveImportPath: the loop over the extensions returns in its first
\* round, with `.ts` appended
projectResolveImportPath(fromFile, importPath) ==
  IF importPath[1] # "./" THEN NoPath
  ELSE normalizePath(Tail(importPath) \o <<".ts">>)

\* what one import adds to the Set of its resolved file
importedBy(imp) ==
  (IF imp.defaultImport THEN {"__default__"} ELSE {})
    \cup (IF imp.namespaceImport THEN {"__namespace__"} ELSE {})
    \cup imp.namedImports

\* importedSymbols.get(normalized) || new Set()
importedSymbols(parsed, normalized) ==
  UNION {UNION {IF projectResolveImportPath(parsed[i].filePath, parsed[i].imports[k].modulePath)
                     = normalized
                  THEN importedBy(parsed[i].imports[k]) ELSE {} :
                  k \in 1..Len(parsed[i].imports)} : i \in 1..Len(parsed)}

isUsed(exp, fileImports) ==
  IF exp.isDefault
    THEN "__default__" \in fileImports \/ "__namespace__" \in fileImports
    ELSE exp.name \in fileImports \/ "__namespace__" \in fileImports

\* the unused exports of one file, in the order of its exports
unusedOfFile(parsed, file) ==
  IF isTestFile(file.filePath) THEN <<>>
  ELSE LET fileImports == importedSymbols(parsed, normalizePath(file.filePath))
           unused == SelectSeq(file.exports,
                               LAMBDA exp : ~exp.isReExport /\ ~isUsed(exp, fileImports))
       IN [e \in 1..Len(unused) |->
             [filePath |-> file.filePath, exportName |-> unused[e].name,
              isDefault |-> unused[e].isDefault]]

RECURSIVE unusedFrom(_, _)
unusedFrom(parsed, i) ==
  IF i > Len(parsed) THEN <<>>
  ELSE unusedOfFile(parsed, parsed[i]) \o unusedFrom(parsed, i + 1)

\* findUnusedExports(parsedFiles)
findUnusedExports(parsed) == unusedFrom(parsed, 1)

InitProject ==
  /\ \E imports \in SeqsUpTo(ImportInfos, 1), target \in TargetPaths,
        exports \in SeqsUpTo(ExportInfos, MaxExports) :
       /\ \A e, f \in 1..Len(exports) : exports[e].name = exports[f].name => e = f
       /\ projectInput =
            << [filePath |-> <<"a", ".ts">>, imports |-> imports, exports |-> <<>>],
               [filePath |-> target, imports |-> <<>>, exports |-> exports] >>
  /\ unusedExports = NoUnused
  /\ ParserIdle
  /\ CacheIdle
  /\ UpdateIdle
  /\ AnalyzeIdle
  /\ DepsIdle
  /\ ResolverIdle
  /\ OverlayIdle
  /\ MetricsIdle
  /\ ClassifyIdle

\* ProjectAnalyzer.analyze, its unusedExports
AnalyzeProject ==
  /\ unusedExports = NoUnused
  /\ unusedExports' = [analyzed |-> TRUE, list |-> findUnusedExports(projectInput)]
  /\ UNCHANGED <<projectInput, parserVars, cacheVars, updateVars, analyzeVars, depsVars,
                 resolverVars, overlayVars, metricsVars, classifyVars>>

NextProject == AnalyzeProject

SpecProject == InitProject /\ [][NextProject]_vars

\* the import names the file: the specifier is the path of the file, or the path without
\* its extension
ResolvesTo(importPath, filePath) ==
  /\ importPath[1] = "./"
  /\ filePath \in {Tail(importPath)} \cup CandidatesOf(importPath)

\* the imports of the analysed files that name the file
ImportsResolvingTo(filePath) ==
  UNION {{projectInput[i].imports[k] : k \in 1..Len(projectInput[i].imports)} :
           i \in 1..Len(projectInput)}
    \cap {imp \in ImportInfos : ResolvesTo(imp.modulePath, filePath)}

\* the import takes the export: by its name, or as the default
ImportedByName(exp, imp) ==
  IF exp.isDefault THEN imp.defaultImport ELSE exp.name \in imp.namedImports

Reported(filePath, exp) ==
  \E u \in 1..Len(unusedExports.list) :
     unusedExports.list[u] = [filePath |-> filePath, exportName |-> exp.name,
                              isDefault |-> exp.isDefault]

\* C30: an export is reported unused exactly when it is not a re-export, its file is not a
\* test file, no import that resolves to its file takes it by name or as the default, and
\* no namespace import resolves to its file, whatever the extension of the file
C30_UnusedExactlyWhenNotImported ==
  unusedExports.analyzed
    => \A i \in 1..Len(projectInput) :
          \A e \in 1..Len(projectInput[i].exports) :
             LET file == projectInput[i]
                 exp == file.exports[e]
                 resolving == ImportsResolvingTo(file.filePath)
             IN Reported(file.filePath, exp)
                  <=> /\ ~exp.isReExport
                      /\ ~isTestFile(file.filePath)
                      /\ ~\E imp \in resolving : ImportedByName(exp, imp)
                      /\ ~\E imp \in resolving : imp.namespaceImport

====
